---- MODULE Spec2Model ----
(***************************************************************************)
(* Model of the rules engine window.Rules (MODULE: RULES, Root Authority). *)
(*                                                                         *)
(* JavaScript values are encoded as follows.                               *)
(*   - A target or a target pattern is a sequence of one-character         *)
(*     strings; UNDEF is the encoding of the value undefined.              *)
(*   - An action, a "when" predicate, an id, a name and a level are TLA+   *)
(*     strings; "#undefined" encodes a missing property.                   *)
(*   - A number is an integer, NaN encodes the number NaN.                 *)
(*   - A rule carries in its field "types" the typeof of each property     *)
(*     the validator inspects.                                             *)
(*   - An object used as a map (a request context, condition.context) is   *)
(*     a set of <<key, value>> pairs.                                      *)
(*   - A result is a record; kind "throw" is an exception that leaves the  *)
(*     called function.  A reason is a tuple of strings, the pieces of the *)
(*     template literal that builds it.                                    *)
(***************************************************************************)
EXTENDS Integers, Sequences, FiniteSets, TLC

VARIABLES rules, initialized, order, prev, last, sink, world

vars == <<rules, initialized, order, prev, last, sink, world>>

-----------------------------------------------------------------------------
(* Encodings *)

UNDEF == <<"#undefined">>

NoStr == "#undefined"

NaN == 0 - 1

IsNaN(n) == n = NaN

STAR == <<"*">>

SeqToSet(s) == {s[i] : i \in 1..Len(s)}

\* property lookup obj[key] on a map; NoStr when the key is absent
Lookup(obj, key) ==
    IF \E p \in obj : p[1] = key
    THEN (CHOOSE p \in obj : p[1] = key)[2]
    ELSE NoStr

-----------------------------------------------------------------------------
(* Constants of the engine *)

HIERARCHY == <<"system", "environment", "project", "mode", "widget">>

\* a taxonomy that names the operations of the legacy DB.op
ActionsWithLegacyOps ==
    { "widget.open", "widget.close", "widget.execute", "widget.install",
      "widget.uninstall",
      "window.create", "window.close", "window.move", "window.resize",
      "window.focus", "window.minimize", "window.maximize",
      "db.read", "db.write", "db.delete", "db.export", "db.import",
      "db.put", "db.get",
      "project.create", "project.open", "project.save", "project.export",
      "project.delete", "project.switch", "project.clone",
      "page.create", "page.update", "page.delete", "page.preview",
      "ui.notify", "ui.alert", "ui.confirm",
      "system.boot", "system.shutdown", "system.debug", "system.log",
      "system.settings.read", "system.settings.write" }

\* the own properties of Rules.ACTIONS
Actions ==
    { "widget.open", "widget.close", "widget.execute", "widget.install",
      "widget.uninstall",
      "window.create", "window.close", "window.move", "window.resize",
      "window.focus", "window.minimize", "window.maximize",
      "db.read", "db.write", "db.delete", "db.export", "db.import",
      "project.create", "project.open", "project.save", "project.export",
      "project.delete", "project.switch", "project.clone",
      "page.create", "page.update", "page.delete", "page.preview",
      "ui.notify", "ui.alert", "ui.confirm",
      "system.boot", "system.shutdown", "system.debug", "system.log",
      "system.settings.read", "system.settings.write" }

\* ACTIONS is an object literal: a lookup ACTIONS[name] also finds the
\* properties it inherits from Object.prototype, all of them truthy
ObjectPrototypeKeys ==
    { "constructor", "toString", "toLocaleString", "valueOf",
      "hasOwnProperty", "isPrototypeOf", "propertyIsEnumerable",
      "__proto__", "__defineGetter__", "__defineSetter__",
      "__lookupGetter__", "__lookupSetter__" }

\* truthiness of this.ACTIONS[action]
ActionsLookup(action) == action \in Actions \cup ObjectPrototypeKeys

-----------------------------------------------------------------------------
(* Regular expressions over the pattern alphabet.  A source is a sequence  *)
(* of characters: "^" and "$" are assertions, "." is any character, "*"    *)
(* and "+" are postfix quantifiers, "(" opens a group, "[" opens a class,  *)
(* every other character is a literal.  The alphabet holds no ")" and no   *)
(* "]", so a "(" or a "[" is never terminated.                             *)

Quantifiers == {"*", "+"}

Assertions == {"^", "$"}

\* new RegExp(src) returns; FALSE is a SyntaxError
RegExpCompiles(src) ==
    /\ \A i \in 1..Len(src) : src[i] \notin {"(", "["}
    /\ \A i \in 1..Len(src) :
          src[i] \in Quantifiers =>
             /\ i > 1
             /\ src[i-1] \notin Quantifiers \cup Assertions

AtomMatches(atom, c) == atom = "." \/ atom = c

RECURSIVE MatchHere(_, _, _)
\* the compiled expression src matches text from position j on
MatchHere(src, text, j) ==
    IF src = << >> THEN TRUE
    ELSE IF Head(src) = "^" THEN j = 1 /\ MatchHere(Tail(src), text, j)
    ELSE IF Head(src) = "$"
         THEN j = Len(text) + 1 /\ MatchHere(Tail(src), text, j)
    ELSE IF Len(src) >= 2 /\ src[2] \in Quantifiers
         THEN \E k \in (IF src[2] = "+" THEN j + 1 ELSE j)..(Len(text) + 1) :
                 /\ \A m \in j..(k - 1) : AtomMatches(Head(src), text[m])
                 /\ MatchHere(SubSeq(src, 3, Len(src)), text, k)
    ELSE /\ j <= Len(text)
         /\ AtomMatches(Head(src), text[j])
         /\ MatchHere(Tail(src), text, j + 1)

\* regex.test(text)
RegExpTest(src, text) == \E j \in 1..(Len(text) + 1) : MatchHere(src, text, j)

RECURSIVE ReplaceStars(_)
\* pattern.replace(/\*/g, '.*')
ReplaceStars(pattern) ==
    IF pattern = << >> THEN << >>
    ELSE IF Head(pattern) = "*"
         THEN <<".", "*">> \o ReplaceStars(Tail(pattern))
         ELSE <<Head(pattern)>> \o ReplaceStars(Tail(pattern))

\* the source of the expression built for a wildcard pattern
GlobSource(pattern) == <<"^">> \o ReplaceStars(pattern) \o <<"$">>

\* _matchesTarget without the wildcard patterns
\* _matchesTarget that tries the wildcard form ahead of the regular
\* expression form
MatchesTargetGlobFirst(pattern, target) ==
    IF pattern = STAR THEN "true"
    ELSE IF pattern = target THEN "true"
    ELSE IF pattern = UNDEF THEN "throw"
    ELSE IF "*" \in SeqToSet(pattern)
         THEN IF ~RegExpCompiles(GlobSource(pattern)) THEN "throw"
              ELSE IF RegExpTest(GlobSource(pattern), target)
                   THEN "true" ELSE "false"
    ELSE IF Len(pattern) >= 1 /\ Head(pattern) = "/"
            /\ pattern[Len(pattern)] = "/"
         THEN LET inner == SubSeq(pattern, 2, Len(pattern) - 1)
              IN  IF ~RegExpCompiles(inner) THEN "throw"
                  ELSE IF RegExpTest(inner, target) THEN "true" ELSE "false"
    ELSE "false"

MatchesTargetExact(pattern, target) ==
    IF pattern = STAR THEN "true"
    ELSE IF pattern = target THEN "true"
    ELSE IF pattern = UNDEF THEN "throw"
    ELSE "false"

\* Rules._matchesTarget: "true", "false" or "throw"
MatchesTarget(pattern, target) ==
    IF pattern = STAR THEN "true"
    ELSE IF pattern = target THEN "true"
    ELSE IF pattern = UNDEF THEN "throw"
    ELSE IF Len(pattern) >= 1 /\ Head(pattern) = "/"
            /\ pattern[Len(pattern)] = "/"
         THEN LET inner == SubSeq(pattern, 2, Len(pattern) - 1)
              IN  IF ~RegExpCompiles(inner) THEN "throw"
                  ELSE IF RegExpTest(inner, target) THEN "true" ELSE "false"
    ELSE IF "*" \in SeqToSet(pattern)
         THEN IF ~RegExpCompiles(GlobSource(pattern)) THEN "throw"
              ELSE IF RegExpTest(GlobSource(pattern), target)
                   THEN "true" ELSE "false"
    ELSE "false"

-----------------------------------------------------------------------------
(* Rules *)

StringTypes ==
    [self |-> "object", id |-> "string", name |-> "string",
     priority |-> "number", condition |-> "object", action |-> "string",
     effect |-> "object", enabled |-> "boolean"]

\* a rule literal with every property of the expected type
Rule(id, name, priority, level, condition, effect, enabled) ==
    [id |-> id, name |-> name, priority |-> priority, level |-> level,
     condition |-> condition, effect |-> effect, enabled |-> enabled,
     types |-> StringTypes]

Condition(action, target, when, context) ==
    [action |-> action, target |-> target, when |-> when, context |-> context]

Effect(type, reason) ==
    [type |-> type, reason |-> reason, transform |-> "none",
     modifiedAction |-> NoStr]

ALWAYS == <<"always">>

\* the built-in rules with the catch-all deny rule enabled
SystemRulesCatchAllEnabled ==
    << Rule("system-boot-allow", "Allow System Boot", 1000, "system",
            Condition("system.boot", STAR, ALWAYS, {}),
            Effect("allow", "System boot is always allowed"), TRUE),
       Rule("system-log-allow", "Allow System Logging", 1000, "system",
            Condition("system.log", STAR, ALWAYS, {}),
            Effect("allow", "System logging is always allowed"), TRUE),
       Rule("system-debug-allow", "Allow Debugger", 1000, "system",
            Condition("system.debug", STAR, ALWAYS, {}),
            Effect("allow", "Debugger access is always allowed"), TRUE),
       Rule("system-dangerous-deny", "Deny Dangerous Actions", 50, "system",
            Condition("*", STAR, ALWAYS, {}),
            Effect("deny", "Action not explicitly allowed"), TRUE) >>

\* the four rules registered by Rules._loadSystemRules, in call order
SystemRules ==
    << Rule("system-boot-allow", "Allow System Boot", 1000, "system",
            Condition("system.boot", STAR, ALWAYS, {}),
            Effect("allow", "System boot is always allowed"), TRUE),
       Rule("system-log-allow", "Allow System Logging", 1000, "system",
            Condition("system.log", STAR, ALWAYS, {}),
            Effect("allow", "System logging is always allowed"), TRUE),
       Rule("system-debug-allow", "Allow Debugger", 1000, "system",
            Condition("system.debug", STAR, ALWAYS, {}),
            Effect("allow", "Debugger access is always allowed"), TRUE),
       Rule("system-dangerous-deny", "Deny Dangerous Actions", 50, "system",
            Condition("*", STAR, ALWAYS, {}),
            Effect("deny", "Action not explicitly allowed"), FALSE) >>

\* Rules._validateRule
ValidateRule(rule) ==
    /\ ~(rule.id \in {"", NoStr} \/ rule.types.id # "string")
    /\ ~(rule.name \in {"", NoStr} \/ rule.types.name # "string")
    /\ ~( \/ rule.types.priority # "number"
          \/ (~IsNaN(rule.priority) /\ rule.priority < 1)
          \/ (~IsNaN(rule.priority) /\ rule.priority > 1000) )
    /\ rule.level \in SeqToSet(HIERARCHY)
    /\ rule.types.condition = "object"
    /\ ~(rule.condition.action \in {"", NoStr} \/ rule.types.action # "string")
    /\ rule.types.effect = "object"
    /\ rule.effect.type \in {"allow", "deny", "modify"}
    /\ rule.types.enabled = "boolean"

\* this._rules.findIndex(r => r.id === id), 0 when there is none
FindIndex(store, id) ==
    IF \E i \in 1..Len(store) : store[i].id = id
    THEN CHOOSE i \in 1..Len(store) :
            /\ store[i].id = id
            /\ \A j \in 1..(i - 1) : store[j].id # id
    ELSE 0

\* the value of the comparator (a, b) => b.priority - a.priority, as its
\* sign; a NaN difference counts as 0
Compare(a, b) ==
    IF IsNaN(a.priority) \/ IsNaN(b.priority) THEN 0
    ELSE IF b.priority - a.priority < 0 THEN 0 - 1
    ELSE IF b.priority - a.priority > 0 THEN 1
    ELSE 0

\* the comparator orders the elements consistently (equality under the
\* comparator is transitive): no priority is NaN, or the priorities that
\* are numbers are all the same
ConsistentComparator(store) ==
    \/ \A i \in 1..Len(store) : ~IsNaN(store[i].priority)
    \/ \A i, j \in 1..Len(store) :
          (~IsNaN(store[i].priority) /\ ~IsNaN(store[j].priority))
             => store[i].priority = store[j].priority

\* r inserted behind every element that does not sort after it
InsertStable(sorted, r) ==
    LET n == Cardinality({i \in 1..Len(sorted) : Compare(sorted[i], r) <= 0})
    IN  SubSeq(sorted, 1, n) \o <<r>> \o SubSeq(sorted, n + 1, Len(sorted))

RECURSIVE StableSort(_)
StableSort(store) ==
    IF store = << >> THEN << >>
    ELSE InsertStable(StableSort(SubSeq(store, 1, Len(store) - 1)),
                      store[Len(store)])

RECURSIVE AllOrders(_)
\* the sequences that list every element of S once
AllOrders(S) ==
    IF S = {} THEN { << >> }
    ELSE UNION { { <<x>> \o p : p \in AllOrders(S \ {x}) } : x \in S }

\* the outcomes of this._rules.sort((a, b) => b.priority - a.priority):
\* Array.prototype.sort is stable; with a comparator that is not consistent
\* the order is implementation-defined
SortOutcomes(store) ==
    IF ConsistentComparator(store) THEN { StableSort(store) }
    ELSE { [i \in 1..Len(store) |-> store[p[i]]] :
              p \in AllOrders(1..Len(store)) }

-----------------------------------------------------------------------------
(* Store operations.  An operation whose sort has several outcomes yields  *)
(* a set of outcomes.                                                      *)

\* register that stores the candidate before it validates it
RegisterThenValidate(store, rule) ==
    IF rule.types.self # "object" \/ rule.id \in {"", NoStr}
    THEN { [store |-> store, ret |-> FALSE] }
    ELSE LET existingIndex == FindIndex(store, rule.id)
             updated == IF existingIndex > 0
                        THEN [store EXCEPT ![existingIndex] = rule]
                        ELSE Append(store, rule)
         IN  { [store |-> s, ret |-> ValidateRule(rule)] :
                  s \in SortOutcomes(updated) }

\* register that takes the existing rule of the id out of the list and adds
\* the new one at the end
RegisterRemoveThenPush(store, rule) ==
    IF rule.types.self # "object" \/ rule.id \in {"", NoStr}
    THEN { [store |-> store, ret |-> FALSE] }
    ELSE IF ~ValidateRule(rule)
    THEN { [store |-> store, ret |-> FALSE] }
    ELSE LET Other(r) == r.id # rule.id
         IN  { [store |-> s, ret |-> TRUE] :
                  s \in SortOutcomes(Append(SelectSeq(store, Other), rule)) }

\* register that adds the rule without looking for its id in the store
RegisterAlwaysPush(store, rule) ==
    IF rule.types.self # "object" \/ rule.id \in {"", NoStr}
    THEN { [store |-> store, ret |-> FALSE] }
    ELSE IF ~ValidateRule(rule)
    THEN { [store |-> store, ret |-> FALSE] }
    ELSE { [store |-> s, ret |-> TRUE] : s \in SortOutcomes(Append(store, rule)) }

\* Rules.register: the pairs (store after the call, value returned)
Register(store, rule) ==
    IF rule.types.self # "object" \/ rule.id \in {"", NoStr}
    THEN { [store |-> store, ret |-> FALSE] }
    ELSE IF ~ValidateRule(rule)
    THEN { [store |-> store, ret |-> FALSE] }
    ELSE LET existingIndex == FindIndex(store, rule.id)
             updated == IF existingIndex > 0
                        THEN [store EXCEPT ![existingIndex] = rule]
                        ELSE Append(store, rule)
         IN  { [store |-> s, ret |-> TRUE] : s \in SortOutcomes(updated) }

\* unregister that fills the place of the removed rule with the last rule
UnregisterSwapRemove(store, ruleId) ==
    LET index == FindIndex(store, ruleId)
        n == Len(store)
    IN  IF index > 0
        THEN IF store[index].level = "system"
             THEN [store |-> store, ret |-> FALSE]
             ELSE [store |-> SubSeq([store EXCEPT ![index] = store[n]],
                                    1, n - 1),
                   ret |-> TRUE]
        ELSE [store |-> store, ret |-> FALSE]

\* unregister without the protection of system rules
UnregisterAnyLevel(store, ruleId) ==
    LET index == FindIndex(store, ruleId)
    IN  IF index > 0
        THEN [store |-> SubSeq(store, 1, index - 1)
                          \o SubSeq(store, index + 1, Len(store)),
              ret |-> TRUE]
        ELSE [store |-> store, ret |-> FALSE]

\* Rules.unregister
Unregister(store, ruleId) ==
    LET index == FindIndex(store, ruleId)
    IN  IF index > 0
        THEN IF store[index].level = "system"
             THEN [store |-> store, ret |-> FALSE]
             ELSE [store |-> SubSeq(store, 1, index - 1)
                               \o SubSeq(store, index + 1, Len(store)),
                   ret |-> TRUE]
        ELSE [store |-> store, ret |-> FALSE]

IsSystem(r) == r.level = "system"

NotProject(r) == r.level # "project"

\* clear that keeps every rule that is not of level project
ClearProjectLevel(store) == SelectSeq(store, NotProject)

\* Rules.clear
Clear(store) == SelectSeq(store, IsSystem)

\* the values of which no property can be read: rule.level throws
Nullish == {"null", "undefined"}

RECURSIVE RegisterEach(_, _)
\* project.rules.forEach(rule => { if (rule.level === 'project') register })
RegisterEach(stores, list) ==
    IF list = << >> THEN stores
    ELSE IF Head(list).types.self \in Nullish THEN stores
    ELSE RegisterEach(
            UNION { IF Head(list).level = "project"
                    THEN { o.store : o \in Register(s, Head(list)) }
                    ELSE { s } : s \in stores },
            Tail(list))

\* Rules.loadProjectRules: the stores the call can leave
LoadProjectRules(store, project) ==
    IF ~project.present \/ ~project.hasRules THEN { store }
    ELSE RegisterEach({ SelectSeq(store, NotProject) }, project.rules)

RECURSIVE LoadSystemRulesFrom(_, _)
LoadSystemRulesFrom(stores, list) ==
    IF list = << >> THEN stores
    ELSE LoadSystemRulesFrom(
            UNION { { o.store : o \in Register(s, Head(list)) } : s \in stores },
            Tail(list))

\* Rules._loadSystemRules on the emptied list
LoadSystemRules == LoadSystemRulesFrom({ << >> }, SystemRules)

-----------------------------------------------------------------------------
(* Evaluation *)

Result(allowed, reason, modifiedAction) ==
    [kind |-> "return", allowed |-> allowed, reason |-> reason,
     modifiedAction |-> modifiedAction]

\* an exception leaves the function
Thrown == [kind |-> "throw", allowed |-> FALSE, reason |-> <<"exception">>,
           modifiedAction |-> NoStr]

\* the default result carrying the reason of the catch-all system rule
DefaultResultOfCatchAll ==
    Result(FALSE, <<"Action not explicitly allowed">>, NoStr)

\* a default result that lets the action through
DefaultResultAllowed ==
    Result(TRUE, <<"No matching rule found">>, NoStr)

DefaultResult == Result(FALSE, <<"No matching rule found">>, NoStr)

\* Rules._matchesWhen: "true", "false" or "throw"
MatchesWhen(when, context) ==
    IF when = ALWAYS THEN "true"
    ELSE IF Len(when) >= 1 /\ when[1] = "mode:"
         THEN IF context.kind = "null" THEN "throw"
              ELSE IF \/ Lookup(context.map, "mode") = when[2]
                      \/ Lookup(context.map, "activeMode") = when[2]
                   THEN "true" ELSE "false"
    ELSE "false"

\* cond.when && cond.when !== 'always'
WhenIsChecked(when) == when \notin {UNDEF, << >>} /\ when # ALWAYS

\* the three checks shared by _getApplicableRules and _matchesCondition
MatchesBasic(cond, action, target, context) ==
    IF cond.action # "*" /\ cond.action # action THEN "false"
    ELSE LET t == IF cond.target # STAR
                  THEN MatchesTarget(cond.target, target) ELSE "true"
         IN  IF t # "true" THEN t
             ELSE IF WhenIsChecked(cond.when)
                  THEN MatchesWhen(cond.when, context)
                  ELSE "true"

\* the callback of the filter in Rules._getApplicableRules
Applicable(rule, action, target, context) ==
    IF ~rule.enabled THEN "false"
    ELSE MatchesBasic(rule.condition, action, target, context)

\* Rules._matchesCondition
MatchesCondition(cond, action, target, context) ==
    LET b == MatchesBasic(cond, action, target, context)
    IN  IF b # "true" THEN b
        ELSE IF cond.context = {} THEN "true"
        ELSE IF context.kind = "null" THEN "throw"
        ELSE IF \A p \in cond.context : Lookup(context.map, p[1]) = p[2]
             THEN "true" ELSE "false"

OrDefault(reason, default) == IF reason \in {"", NoStr} THEN default ELSE reason

\* _applyEffect that calls the transform outside of a try block
ApplyEffectUncaught(effect) ==
    IF effect.type = "allow"
    THEN Result(TRUE, <<OrDefault(effect.reason, "Action allowed by rule")>>,
                NoStr)
    ELSE IF effect.type = "deny"
    THEN Result(FALSE, <<OrDefault(effect.reason, "Action denied by rule")>>,
                NoStr)
    ELSE IF effect.type = "modify"
    THEN IF effect.transform = "returns"
         THEN Result(TRUE,
                     <<OrDefault(effect.reason, "Action modified by rule")>>,
                     "transformed")
         ELSE IF effect.transform = "throws"
         THEN Thrown
         ELSE Result(TRUE,
                     <<OrDefault(effect.reason, "Action modified by rule")>>,
                     OrDefault(effect.modifiedAction, "request"))
    ELSE Result(FALSE, <<"Unknown effect type: ", effect.type>>, NoStr)

\* _applyEffect whose fallback hands back the request whatever the payload
ApplyEffectRequestFallback(effect) ==
    IF effect.type = "allow"
    THEN Result(TRUE, <<OrDefault(effect.reason, "Action allowed by rule")>>,
                NoStr)
    ELSE IF effect.type = "deny"
    THEN Result(FALSE, <<OrDefault(effect.reason, "Action denied by rule")>>,
                NoStr)
    ELSE IF effect.type = "modify"
    THEN IF effect.transform = "returns"
         THEN Result(TRUE,
                     <<OrDefault(effect.reason, "Action modified by rule")>>,
                     "transformed")
         ELSE IF effect.transform = "throws"
         THEN Result(FALSE, <<"Rule transform failed">>, NoStr)
         ELSE Result(TRUE,
                     <<OrDefault(effect.reason, "Action modified by rule")>>,
                     "request")
    ELSE Result(FALSE, <<"Unknown effect type: ", effect.type>>, NoStr)

\* Rules._applyEffect
ApplyEffect(effect) ==
    IF effect.type = "allow"
    THEN Result(TRUE, <<OrDefault(effect.reason, "Action allowed by rule")>>,
                NoStr)
    ELSE IF effect.type = "deny"
    THEN Result(FALSE, <<OrDefault(effect.reason, "Action denied by rule")>>,
                NoStr)
    ELSE IF effect.type = "modify"
    THEN IF effect.transform = "returns"
         THEN Result(TRUE,
                     <<OrDefault(effect.reason, "Action modified by rule")>>,
                     "transformed")
         ELSE IF effect.transform = "throws"
         THEN Result(FALSE, <<"Rule transform failed">>, NoStr)
         ELSE Result(TRUE,
                     <<OrDefault(effect.reason, "Action modified by rule")>>,
                     OrDefault(effect.modifiedAction, "request"))
    ELSE Result(FALSE, <<"Unknown effect type: ", effect.type>>, NoStr)

RECURSIVE Walk(_, _, _, _)
\* the loop of Rules.evaluate over the applicable rules
Walk(applicable, action, target, context) ==
    IF applicable = << >> THEN DefaultResult
    ELSE LET rule == Head(applicable)
             m == MatchesCondition(rule.condition, action, target, context)
         IN  IF ~rule.enabled
             THEN Walk(Tail(applicable), action, target, context)
             ELSE IF m = "throw" THEN Thrown
             ELSE IF m = "false"
             THEN Walk(Tail(applicable), action, target, context)
             ELSE ApplyEffect(rule.effect)

\* const { action, target = '*', context = {} } = request
RequestTarget(request) ==
    IF request.target = UNDEF THEN STAR ELSE request.target

RequestContext(request) ==
    IF request.context.kind = "undefined"
    THEN [kind |-> "object", map |-> {}]
    ELSE request.context

\* evaluate that walks the system-level rules ahead of the others
EvaluateByLevel(store, request) ==
    IF ~request.present \/ request.action \in {"", NoStr}
    THEN Result(FALSE, <<"Invalid request: missing action">>, NoStr)
    ELSE IF ~ActionsLookup(request.action) /\ request.action # "*"
    THEN Result(FALSE, <<"Unknown action: ", request.action>>, NoStr)
    ELSE LET action == request.action
             target == RequestTarget(request)
             context == RequestContext(request)
             IsApplicable(r) == Applicable(r, action, target, context) = "true"
             NotSystem(r) == r.level # "system"
             byLevel == SelectSeq(store, IsSystem) \o SelectSeq(store, NotSystem)
         IN  IF \E i \in 1..Len(store) :
                    Applicable(store[i], action, target, context) = "throw"
             THEN Thrown
             ELSE Walk(SelectSeq(byLevel, IsApplicable), action, target, context)

\* evaluate without the guard on a missing request: reading request.action
\* of undefined throws
EvaluateUnguarded(store, request) ==
    IF ~request.present THEN Thrown
    ELSE IF request.action \in {"", NoStr}
    THEN Result(FALSE, <<"Unknown action: ", request.action>>, NoStr)
    ELSE IF ~ActionsLookup(request.action) /\ request.action # "*"
    THEN Result(FALSE, <<"Unknown action: ", request.action>>, NoStr)
    ELSE LET action == request.action
             target == RequestTarget(request)
             context == RequestContext(request)
             IsApplicable(r) == Applicable(r, action, target, context) = "true"
         IN  IF \E i \in 1..Len(store) :
                    Applicable(store[i], action, target, context) = "throw"
             THEN Thrown
             ELSE Walk(SelectSeq(store, IsApplicable), action, target, context)

\* Rules.evaluate on an initialized engine holding store
Evaluate(store, request) ==
    IF ~request.present \/ request.action \in {"", NoStr}
    THEN Result(FALSE, <<"Invalid request: missing action">>, NoStr)
    ELSE IF ~ActionsLookup(request.action) /\ request.action # "*"
    THEN Result(FALSE, <<"Unknown action: ", request.action>>, NoStr)
    ELSE LET action == request.action
             target == RequestTarget(request)
             context == RequestContext(request)
             IsApplicable(r) == Applicable(r, action, target, context) = "true"
         IN  IF \E i \in 1..Len(store) :
                    Applicable(store[i], action, target, context) = "throw"
             THEN Thrown
             ELSE Walk(SelectSeq(store, IsApplicable), action, target, context)

-----------------------------------------------------------------------------
(* The diagnostics sink window.Debugger.  sink is "absent" when there is   *)
(* no window.Debugger, "attached" when its methods return and "throws"     *)
(* when they throw.  An event is one call of a method of the sink, with    *)
(* the rule list as it is at that moment, which is the list a listener of  *)
(* the sink reads when it calls back into the engine.                      *)

Sinks == {"absent", "attached", "throws"}

NoResult == Result(FALSE, << >>, NoStr)

\* a call of Debugger.log, Debugger.logWarning or Debugger.logError
Notice(method, store) ==
    [method |-> method, store |-> store, action |-> NoStr, target |-> UNDEF,
     result |-> NoResult, context |-> {}]

\* a call Debugger.logRule(action, target, result, context)
RuleEvent(store, action, target, result, context) ==
    [method |-> "logRule", store |-> store, action |-> action,
     target |-> target, result |-> result, context |-> context]

\* the calls made on the sink s out of the calls the code comes to: none
\* without a sink, all of them when the sink returns, the first one when
\* the sink throws
Forward(s, calls) ==
    IF s = "absent" \/ calls = << >> THEN << >>
    ELSE IF s = "throws" THEN << calls[1] >>
    ELSE calls

\* the sink threw in one of the calls
SinkThrew(s, calls) == s = "throws" /\ calls # << >>

\* { ...base, ...context }: the properties of context replace those of base
Spread(base, context) ==
    IF context.kind # "object" THEN base
    ELSE context.map
           \cup { p \in base : \A q \in context.map : q[1] # p[1] }

\* Rules.register with the sink s: store, value returned, whether the call
\* threw, calls made on the sink
RegisterSink(s, store, rule) ==
    { LET calls == IF rule.types.self # "object" \/ rule.id \in {"", NoStr}
                   THEN << Notice("logError", b.store) >>
                   ELSE IF b.ret THEN << Notice("log", b.store) >>
                   ELSE << >>
      IN  [store |-> b.store, ret |-> b.ret, threw |-> SinkThrew(s, calls),
           events |-> Forward(s, calls)] :
      b \in Register(store, rule) }

\* Rules.unregister with the sink s
UnregisterSink(s, store, ruleId) ==
    LET b == Unregister(store, ruleId)
        calls == IF b.ret THEN << Notice("log", b.store) >>
                 ELSE IF FindIndex(store, ruleId) > 0
                 THEN << Notice("logWarning", b.store) >>
                 ELSE << >>
    IN  [store |-> b.store, ret |-> b.ret, threw |-> SinkThrew(s, calls),
         events |-> Forward(s, calls)]

RECURSIVE RegisterList(_, _, _, _)
\* register called on the rules of list one after the other, on those of
\* level project alone when projectOnly; an exception, of the sink or of
\* the read of the level of an entry that is null, ends the loop
RegisterList(s, outs, list, projectOnly) ==
    IF list = << >> THEN outs
    ELSE RegisterList(s,
            UNION { IF o.threw THEN { o }
                    ELSE IF projectOnly /\ Head(list).types.self \in Nullish
                    THEN { [o EXCEPT !.threw = TRUE] }
                    ELSE IF projectOnly /\ Head(list).level # "project"
                    THEN { o }
                    ELSE { [store |-> r.store, threw |-> r.threw,
                            events |-> o.events \o r.events] :
                           r \in RegisterSink(s, o.store, Head(list)) } :
                    o \in outs },
            Tail(list), projectOnly)

\* the call of the sink that ends a function, when the function got there
Closing(s, o, method) ==
    IF o.threw THEN o
    ELSE LET calls == << Notice(method, o.store) >>
         IN  [store |-> o.store, threw |-> SinkThrew(s, calls),
              events |-> o.events \o Forward(s, calls)]

\* loadProjectRules that removes the project-level rules before it looks
\* at its argument
LoadProjectRulesSinkEvicting(s, store, project) ==
    IF ~project.present \/ ~project.hasRules
    THEN { [store |-> SelectSeq(store, NotProject), threw |-> FALSE,
            events |-> << >>] }
    ELSE { Closing(s, o, "log") :
           o \in RegisterList(s, { [store |-> SelectSeq(store, NotProject),
                                    threw |-> FALSE, events |-> << >>] },
                              project.rules, TRUE) }

\* Rules.loadProjectRules with the sink s
LoadProjectRulesSink(s, store, project) ==
    IF ~project.present \/ ~project.hasRules
    THEN { [store |-> store, threw |-> FALSE, events |-> << >>] }
    ELSE { Closing(s, o, "log") :
           o \in RegisterList(s, { [store |-> SelectSeq(store, NotProject),
                                    threw |-> FALSE, events |-> << >>] },
                              project.rules, TRUE) }

\* Rules.init with the sink s on an engine that is not initialized; the
\* engine is initialized when the four rules were registered
InitSink(s) ==
    { Closing(s, o, "log") :
      o \in RegisterList(s, { [store |-> << >>, threw |-> FALSE,
                               events |-> << >>] },
                         SystemRules, FALSE) }

RECURSIVE Deciding(_, _, _, _)
\* the rule at which the loop of Rules.evaluate stops, as a sequence of
\* one rule; empty when the loop runs to its end
Deciding(applicable, action, target, context) ==
    IF applicable = << >> THEN << >>
    ELSE LET rule == Head(applicable)
             m == MatchesCondition(rule.condition, action, target, context)
         IN  IF ~rule.enabled \/ m = "false"
             THEN Deciding(Tail(applicable), action, target, context)
             ELSE IF m = "throw" THEN << >>
             ELSE << rule >>

\* the calls Rules.evaluate comes to make on a sink, on an initialized
\* engine holding store
EvaluateCalls(store, request) ==
    IF ~request.present \/ request.action \in {"", NoStr} THEN << >>
    ELSE IF ~ActionsLookup(request.action) /\ request.action # "*"
    THEN << Notice("logWarning", store) >>
    ELSE IF Evaluate(store, request).kind = "throw" THEN << >>
    ELSE LET action == request.action
             target == RequestTarget(request)
             context == RequestContext(request)
             IsApplicable(r) == Applicable(r, action, target, context) = "true"
             deciding == Deciding(SelectSeq(store, IsApplicable),
                                  action, target, context)
             result == Evaluate(store, request)
         IN  IF deciding = << >>
             THEN << RuleEvent(store, action, target, result,
                               Spread({<<"source", "unknown">>}, context)) >>
             ELSE LET rule == deciding[1]
                  IN  ( IF /\ rule.effect.type = "modify"
                           /\ rule.effect.transform = "throws"
                        THEN << Notice("logError", store) >>
                        ELSE << >> )
                      \o << RuleEvent(store, action, target, result,
                               Spread({<<"ruleId", rule.id>>,
                                       <<"ruleName", rule.name>>,
                                       <<"source", "unknown">>}, context)) >>

\* evaluate whose init registers the built-in rules into the list as it
\* stands, without emptying it first
EvaluateSinkNoReset(s, isInitialized, store, request) ==
    { IF i.threw
      THEN [store |-> i.store, initialized |-> FALSE, ret |-> Thrown,
            events |-> i.events]
      ELSE LET calls == EvaluateCalls(i.store, request)
           IN  [store |-> i.store, initialized |-> TRUE,
                ret |-> IF SinkThrew(s, calls) THEN Thrown
                        ELSE Evaluate(i.store, request),
                events |-> i.events \o Forward(s, calls)] :
      i \in IF isInitialized
            THEN { [store |-> store, threw |-> FALSE, events |-> << >>] }
            ELSE { Closing(s, o, "log") :
                   o \in RegisterList(s, { [store |-> store, threw |-> FALSE,
                                            events |-> << >>] },
                                      SystemRules, FALSE) } }

\* Rules.evaluate with the sink s; the engine initializes itself first
EvaluateSink(s, isInitialized, store, request) ==
    { IF i.threw
      THEN [store |-> i.store, initialized |-> FALSE, ret |-> Thrown,
            events |-> i.events]
      ELSE LET calls == EvaluateCalls(i.store, request)
           IN  [store |-> i.store, initialized |-> TRUE,
                ret |-> IF SinkThrew(s, calls) THEN Thrown
                        ELSE Evaluate(i.store, request),
                events |-> i.events \o Forward(s, calls)] :
      i \in IF isInitialized
            THEN { [store |-> store, threw |-> FALSE, events |-> << >>] }
            ELSE InitSink(s) }

-----------------------------------------------------------------------------
(* Inputs *)

\* longest rule list of a project handed to loadProjectRules
MaxLoad == 2

T_p1 == <<"p", "1">>

BadRegex == <<"/", "[", "/">>

ModeEdit == <<"mode:", "edit">>

CatchAll(when) == Condition("*", STAR, when, {})

\* valid rules that match every request: r1 of level widget, r2 of level
\* project
PlainRules ==
    { Rule("r1", "rule", 500, "widget", CatchAll(ALWAYS),
           Effect("deny", "by rule"), TRUE),
      Rule("r1", "rule", 600, "widget", CatchAll(ALWAYS),
           Effect("deny", "by rule"), TRUE),
      Rule("r2", "rule", 500, "project", CatchAll(ALWAYS),
           Effect("allow", "by rule"), TRUE),
      Rule("r2", "rule", 500, "project", CatchAll(ALWAYS),
           Effect("deny", "by rule"), TRUE) }

\* valid rules that reuse the id of a built-in system rule
OverwritingRules ==
    { Rule("system-boot-allow", "rule", 1000, "system",
           Condition("system.boot", STAR, ALWAYS, {}),
           Effect("deny", "by rule"), TRUE),
      Rule("system-boot-allow", "rule", 500, "project",
           Condition("system.boot", STAR, ALWAYS, {}),
           Effect("allow", "by rule"), TRUE) }

\* valid rules with no condition.target, with a regular expression that
\* does not compile, with a mode predicate, disabled
OddRules ==
    { Rule("r1", "rule", 500, "widget", Condition("*", UNDEF, ALWAYS, {}),
           Effect("allow", "by rule"), TRUE),
      Rule("r1", "rule", 500, "widget", Condition("*", BadRegex, ALWAYS, {}),
           Effect("allow", "by rule"), TRUE),
      Rule("r1", "rule", 500, "widget", CatchAll(ModeEdit),
           Effect("allow", "by rule"), TRUE),
      Rule("r1", "rule", 600, "widget", CatchAll(ALWAYS),
           Effect("allow", "by rule"), FALSE) }

\* a valid rule whose priority is the number NaN
NaNRule == Rule("r1", "rule", NaN, "widget", CatchAll(ALWAYS),
                Effect("deny", "by rule"), TRUE)

ARule == Rule("r1", "rule", 500, "widget", CatchAll(ALWAYS),
              Effect("allow", "by rule"), TRUE)

\* candidates the validator refuses: null, priority out of range
InvalidRules ==
    { [ARule EXCEPT !.types.self = "null", !.id = NoStr],
      [ARule EXCEPT !.priority = 1001] }

Candidates == PlainRules \cup OverwritingRules \cup OddRules \cup InvalidRules

RuleIds == {"r1", "r2", "system-boot-allow", "r9"}

\* the entries of the rule lists of projects
ProjectEntries ==
    { r \in PlainRules : r.effect.type = "allow" }
    \cup { r \in OverwritingRules : r.level = "project" }

SeqsUpTo(S, n) == UNION { [1..k -> S] : k \in 0..n }

Projects ==
    { [present |-> FALSE, hasRules |-> FALSE, rules |-> << >>],
      [present |-> TRUE, hasRules |-> FALSE, rules |-> << >>] }
    \cup { [present |-> TRUE, hasRules |-> TRUE, rules |-> l] :
             l \in SeqsUpTo(ProjectEntries, MaxLoad) }

NoContext == [kind |-> "undefined", map |-> {}]

NullContext == [kind |-> "null", map |-> {}]

Request(action, target, context) ==
    [present |-> TRUE, action |-> action, target |-> target,
     context |-> context]

\* evaluate() with no argument
NoRequest ==
    [present |-> FALSE, action |-> NoStr, target |-> UNDEF,
     context |-> NoContext]

Requests ==
    { NoRequest,
      Request(NoStr, T_p1, NullContext),
      Request("system.boot", UNDEF, NoContext),
      Request("project.save", T_p1, NoContext),
      Request("project.save", T_p1, NullContext),
      Request("project.save", UNDEF,
              [kind |-> "object", map |-> {<<"mode", "edit">>}]),
      Request("totally.unknown", STAR, NoContext),
      Request("constructor", STAR, NoContext) }

-----------------------------------------------------------------------------
(* The engine.  rules is this._rules and initialized is this._initialized. *)
(* order lists the ids held by the store in the order in which they        *)
(* entered it, prev is the store before the last call and last is the last *)
(* call with the value it returned, whether it threw and the calls it made *)
(* on the sink.  sink is the state of window.Debugger.                     *)

\* the state of the collaborators of the engine when the page is loaded:
\* Settings._initialized, the records held by the database, whether the
\* workspace has an active project, whether it holds the project in its
\* cache, the number of open widget instances, whether window.Rules is
\* defined
NoWorld ==
    [settings |-> FALSE, stored |-> {}, active |-> FALSE, cached |-> FALSE,
     instances |-> 0, engine |-> TRUE]

Ids(store) == {store[i].id : i \in 1..Len(store)}

IdSeq(store) == [i \in 1..Len(store) |-> store[i].id]

\* order after the store changed to store: the ids that left are dropped,
\* the ids that entered follow in the order given by entered
Reorder(ord, store, entered) ==
    LET Stays(id) == id \in Ids(store)
        IsNew(id) == id \in Ids(store) /\ id \notin SeqToSet(ord)
    IN  SelectSeq(ord, Stays) \o SelectSeq(entered, IsNew)

RECURSIVE Dedup(_)
Dedup(s) ==
    IF s = << >> THEN << >>
    ELSE LET d == Dedup(SubSeq(s, 1, Len(s) - 1))
         IN  IF s[Len(s)] \in SeqToSet(d) THEN d ELSE Append(d, s[Len(s)])

\* a call that returned ret and made no call on the sink
Call(op, arg, ret) ==
    [op |-> op, arg |-> arg, ret |-> ret, threw |-> FALSE, events |-> << >>]

\* a call with its outcome o
CallOf(op, arg, ret, o) ==
    [op |-> op, arg |-> arg, ret |-> ret, threw |-> o.threw,
     events |-> o.events]

Init ==
    /\ rules = << >>
    /\ initialized = FALSE
    /\ order = << >>
    /\ prev = << >>
    /\ last = Call("none", NoStr, FALSE)
    /\ sink = "absent"
    /\ world = NoWorld

\* init without the test of _initialized: every call loads the rules anew
InitCallReload ==
    /\ prev' = rules
    /\ UNCHANGED <<sink, world>>
    /\ \E o \in InitSink(sink) :
          /\ rules' = o.store
          /\ initialized' = ~o.threw
          /\ order' = IdSeq(o.store)
          /\ last' = CallOf("init", NoStr, FALSE, o)

\* Rules.init
InitCall ==
    /\ prev' = rules
    /\ UNCHANGED <<sink, world>>
    /\ IF initialized
       THEN /\ last' = Call("init", NoStr, FALSE)
            /\ UNCHANGED <<rules, initialized, order>>
       ELSE \E o \in InitSink(sink) :
               /\ rules' = o.store
               /\ initialized' = ~o.threw
               /\ order' = IdSeq(o.store)
               /\ last' = CallOf("init", NoStr, FALSE, o)

\* Rules.register(rule)
RegisterCall(rule) ==
    \E o \in RegisterSink(sink, rules, rule) :
        /\ rules' = o.store
        /\ order' = Reorder(order, o.store, <<rule.id>>)
        /\ prev' = rules
        /\ last' = CallOf("register", rule, o.ret, o)
        /\ UNCHANGED <<initialized, sink, world>>

\* Rules.unregister(ruleId)
UnregisterCall(ruleId) ==
    LET o == UnregisterSink(sink, rules, ruleId)
    IN  /\ rules' = o.store
        /\ order' = Reorder(order, o.store, << >>)
        /\ prev' = rules
        /\ last' = CallOf("unregister", ruleId, o.ret, o)
        /\ UNCHANGED <<initialized, sink, world>>

\* Rules.clear()
ClearCall ==
    /\ rules' = Clear(rules)
    /\ order' = Reorder(order, Clear(rules), << >>)
    /\ prev' = rules
    /\ last' = Call("clear", NoStr, FALSE)
    /\ UNCHANGED <<initialized, sink, world>>

\* Rules.loadProjectRules(project)
LoadProjectRulesCall(project) ==
    \E o \in LoadProjectRulesSink(sink, rules, project) :
        /\ rules' = o.store
        /\ order' = IF ~project.present \/ ~project.hasRules THEN order
                    ELSE Reorder(Reorder(order, SelectSeq(rules, NotProject),
                                         << >>),
                                 o.store, Dedup(IdSeq(project.rules)))
        /\ prev' = rules
        /\ last' = CallOf("loadProjectRules", project, FALSE, o)
        /\ UNCHANGED <<initialized, sink, world>>

\* Rules.evaluate(request); the engine initializes itself on first use
EvaluateCall(request) ==
    \E o \in EvaluateSink(sink, initialized, rules, request) :
        /\ rules' = o.store
        /\ initialized' = o.initialized
        /\ order' = IF initialized THEN order ELSE IdSeq(o.store)
        /\ prev' = rules
        /\ last' = [op |-> "evaluate", arg |-> request, ret |-> o.ret,
                    threw |-> o.ret.kind = "throw", events |-> o.events]
        /\ UNCHANGED <<sink, world>>

Next ==
    \/ InitCall
    \/ \E rule \in Candidates : RegisterCall(rule)
    \/ \E ruleId \in RuleIds : UnregisterCall(ruleId)
    \/ ClearCall
    \/ \E project \in Projects : LoadProjectRulesCall(project)
    \/ \E request \in Requests : EvaluateCall(request)

Spec == Init /\ [][Next]_vars

TypeOK ==
    /\ initialized \in BOOLEAN
    /\ Len(order) = Len(rules)
    /\ SeqToSet(order) = Ids(rules)

-----------------------------------------------------------------------------
(* The engine fed with a rule whose priority is NaN.  The comparator is    *)
(* then not consistent and every order of the list is an outcome of sort.  *)

NaNCandidates == { NaNRule, ARule }

NextNaN ==
    \/ InitCall
    \/ \E rule \in NaNCandidates : RegisterCall(rule)
    \/ \E ruleId \in {"r1"} : UnregisterCall(ruleId)
    \/ \E request \in {Request("project.save", T_p1, NoContext)} :
          EvaluateCall(request)

SpecNaN == Init /\ [][NextNaN]_vars

-----------------------------------------------------------------------------
(* The engine fed with rules that differ in level, when predicate, context *)
(* map and enabled flag, and with requests that differ in context.         *)

OtherWhen == <<"weekday">>

\* the empty string as when
EmptyWhen == << >>

\* modify effects: a transform that throws, a transform that returns, no
\* transform with a fallback payload, no transform and no payload
ModifyEffects ==
    { [Effect("modify", "rewritten") EXCEPT !.transform = "throws"],
      [Effect("modify", "rewritten") EXCEPT !.transform = "returns"],
      [Effect("modify", "rewritten") EXCEPT !.modifiedAction = "payload"],
      Effect("modify", NoStr) }

EvalCandidates ==
    { \* the built-in catch-all rule, switched on
      Rule("system-dangerous-deny", "Deny Dangerous Actions", 50, "system",
           CatchAll(ALWAYS), Effect("deny", "Action not explicitly allowed"),
           TRUE),
      Rule("m1", "rule", 600, "mode", CatchAll(ModeEdit),
           Effect("allow", "in edit mode"), TRUE),
      Rule("m1", "rule", 600, "mode", CatchAll(OtherWhen),
           Effect("allow", "on weekdays"), TRUE),
      Rule("m1", "rule", 600, "mode", CatchAll(EmptyWhen),
           Effect("allow", "no predicate"), TRUE),
      Rule("c1", "rule", 700, "environment",
           Condition("*", STAR, ALWAYS, {<<"user", "ann">>}),
           Effect("deny", "by context"), TRUE),
      \* a context map with a key whose expected value is undefined
      Rule("c1", "rule", 700, "environment",
           Condition("*", STAR, ALWAYS, {<<"user", "ann">>, <<"role", NoStr>>}),
           Effect("deny", "by context and role"), TRUE),
      Rule("w1", "rule", 500, "widget", CatchAll(ALWAYS),
           Effect("allow", "by rule"), TRUE),
      Rule("w1", "rule", 800, "widget", CatchAll(ALWAYS),
           Effect("deny", "switched off"), FALSE) }
    \cup { Rule("w1", "rule", 500, "widget", CatchAll(ALWAYS), effect, TRUE) :
              effect \in ModifyEffects }

ContextOf(map) == [kind |-> "object", map |-> map]

EvalContexts ==
    { NoContext, NullContext,
      ContextOf({<<"mode", "edit">>}),
      ContextOf({<<"mode", "runner">>}),
      ContextOf({<<"activeMode", "edit">>}),
      ContextOf({<<"mode", "runner">>, <<"activeMode", "edit">>}),
      ContextOf({<<"user", "ann">>}),
      ContextOf({<<"user", "bob">>, <<"mode", "edit">>}) }

EvalRequests ==
    { Request("project.save", T_p1, context) : context \in EvalContexts }

NextEval ==
    \/ InitCall
    \/ \E rule \in EvalCandidates : RegisterCall(rule)
    \/ \E ruleId \in {"m1", "c1", "w1"} : UnregisterCall(ruleId)
    \/ \E request \in EvalRequests : EvaluateCall(request)

SpecEval == Init /\ [][NextEval]_vars

-----------------------------------------------------------------------------
(* The engine with a diagnostics sink.  The sink is drawn at the start:    *)
(* absent, attached, or one whose methods throw.                           *)

SinkCandidates ==
    { ARule,
      [ARule EXCEPT !.effect = [Effect("modify", "rewritten")
                                  EXCEPT !.transform = "throws"]],
      [ARule EXCEPT !.types.self = "null", !.id = NoStr] }

\* a context that has a property named ruleId
NamedContext == ContextOf({<<"ruleId", "x1">>})

SinkRequests ==
    { NoRequest,
      Request("totally.unknown", STAR, NoContext),
      Request("system.boot", UNDEF, NoContext),
      Request("project.save", T_p1, NoContext),
      Request("project.save", T_p1, ContextOf({<<"user", "ann">>})),
      Request("project.save", T_p1, NamedContext) }

InitWithSink ==
    /\ rules = << >>
    /\ initialized = FALSE
    /\ order = << >>
    /\ prev = << >>
    /\ last = Call("none", NoStr, FALSE)
    /\ sink \in Sinks
    /\ world = NoWorld

NextSink ==
    \/ InitCall
    \/ \E rule \in SinkCandidates : RegisterCall(rule)
    \/ \E ruleId \in {"r1", "r2"} : UnregisterCall(ruleId)
    \/ ClearCall
    \/ \E project \in Projects : LoadProjectRulesCall(project)
    \/ \E request \in SinkRequests : EvaluateCall(request)

SpecSink == InitWithSink /\ [][NextSink]_vars

-----------------------------------------------------------------------------
(* isAllowed.  The engine with any sink, a store of rules that allow, deny *)
(* and read the mode of the context, and isAllowed called with and without *)
(* its second and third argument.                                          *)

\* isAllowed that hands evaluate no context
IsAllowedNoContext(action, target, context) ==
    [present |-> TRUE, action |-> action,
     target |-> IF target = UNDEF THEN STAR ELSE target,
     context |-> [kind |-> "object", map |-> {}]]

\* the request { action, target, context } built by
\* isAllowed(action, target = '*', context = {})
IsAllowedRequest(action, target, context) ==
    [present |-> TRUE, action |-> action,
     target |-> IF target = UNDEF THEN STAR ELSE target,
     context |-> IF context.kind = "undefined"
                 THEN [kind |-> "object", map |-> {}]
                 ELSE context]

\* Rules.isAllowed(action, target, context); last.arg holds the arguments
\* as they were passed
IsAllowedCall(action, target, context) ==
    \E o \in EvaluateSink(sink, initialized, rules,
                          IsAllowedRequest(action, target, context)) :
        /\ rules' = o.store
        /\ initialized' = o.initialized
        /\ order' = IF initialized THEN order ELSE IdSeq(o.store)
        /\ prev' = rules
        /\ last' = [op |-> "isAllowed",
                    arg |-> [present |-> TRUE, action |-> action,
                             target |-> target, context |-> context],
                    ret |-> o.ret.allowed,
                    threw |-> o.ret.kind = "throw", events |-> o.events]
        /\ UNCHANGED <<sink, world>>

AllowedCandidates ==
    { ARule,
      Rule("r1", "rule", 500, "widget", CatchAll(ModeEdit),
           Effect("allow", "by rule"), TRUE),
      Rule("r2", "rule", 600, "project",
           Condition("project.save", T_p1, ALWAYS, {}),
           Effect("deny", "by rule"), TRUE) }

AllowedActions == {NoStr, "project.save", "totally.unknown"}

AllowedTargets == {UNDEF, T_p1, <<"p", "2">>}

AllowedContexts ==
    {NoContext, NullContext, ContextOf({<<"mode", "edit">>})}

NextAllowed ==
    \/ InitCall
    \/ \E rule \in AllowedCandidates : RegisterCall(rule)
    \/ \E ruleId \in {"r1", "r2"} : UnregisterCall(ruleId)
    \/ \E action \in AllowedActions, target \in AllowedTargets,
          context \in AllowedContexts :
          IsAllowedCall(action, target, context)

SpecAllowed == InitWithSink /\ [][NextAllowed]_vars

-----------------------------------------------------------------------------
(* The collaborators of the engine: DB, Workspace, Widgets, Settings and   *)
(* Export.  An operation is the list of the steps its code goes through:   *)
(* a guard is a call of Rules.evaluate followed by the test of             *)
(* result.allowed, a need is a test that ends the operation when it fails, *)
(* a do is a write or a change of state.  world.stored is the set of the   *)
(* kinds of record held by the database.  Every operation is called on the *)
(* one project p1, whose rule list is empty.                               *)

\* longest list of open widget instances
MaxInstances == 1

\* a guard that throws when there is no window.Rules
GuardFailClosed(action, keys, prefix) ==
    [k |-> "guard", action |-> action, keys |-> keys, prefix |-> prefix,
     deny |-> "throw", what |-> NoStr, absent |-> "throw"]

\* if (window.Rules) { window.Rules.evaluate({action, target, context}) and,
\* when the result is not allowed, throw new Error(prefix + result.reason) }
Guard(action, keys, prefix) ==
    [k |-> "guard", action |-> action, keys |-> keys, prefix |-> prefix,
     deny |-> "throw", what |-> NoStr, absent |-> "skip"]

\* the guard of Widgets.request: if (!window.Rules) throw new Error('Rules
\* engine not available'), then evaluate and throw on a denial
GuardOrUnavailable(action, keys, prefix) ==
    [Guard(action, keys, prefix) EXCEPT !.absent = "throw"]

\* the guard of Settings.get: when the result is not allowed, return
\* defaultValue
GuardOrDefault(action, keys) ==
    [k |-> "guard", action |-> action, keys |-> keys, prefix |-> NoStr,
     deny |-> "default", what |-> NoStr, absent |-> "skip"]

\* the test that ends the operation by an exception when it fails
Need(what) ==
    [k |-> "need", action |-> NoStr, keys |-> {}, prefix |-> NoStr,
     deny |-> "throw", what |-> what, absent |-> NoStr]

\* the test that makes the operation return false when it fails
NeedOrFalse(what) ==
    [k |-> "need", action |-> NoStr, keys |-> {}, prefix |-> NoStr,
     deny |-> "false", what |-> what, absent |-> NoStr]

Do(what) ==
    [k |-> "do", action |-> NoStr, keys |-> {}, prefix |-> NoStr,
     deny |-> NoStr, what |-> what, absent |-> NoStr]

Operation(name, steps) == [name |-> name, steps |-> steps]

\* DB.saveProject, DB.getProject and DB.deleteProject, which the other
\* collaborators call
SaveProjectSteps ==
    << Guard("project.save", {"project"}, "Project save denied: "),
       Do("put.project") >>

GetProjectSteps ==
    << Guard("project.open", {}, "Project access denied: ") >>

DeleteProjectSteps ==
    << Guard("project.delete", {}, "Project delete denied: "),
       Do("del.project") >>

\* DB.op(op, val) evaluates the action 'db.' + op
DBOps ==
    { Operation("DB.op.put",
         << Guard("db.put", {"operation"}, "DB operation denied: "),
            Do("put.app") >>),
      Operation("DB.op.get",
         << Guard("db.get", {"operation"}, "DB operation denied: ") >>),
      Operation("DB.op.delete",
         << Guard("db.delete", {"operation"}, "DB operation denied: "),
            Do("del.app") >>),
      Operation("DB.saveProject", SaveProjectSteps),
      Operation("DB.getProject", GetProjectSteps),
      Operation("DB.deleteProject", DeleteProjectSteps),
      Operation("DB.writeFile",
         << Guard("db.write", {"namespace", "type"}, "File write denied: "),
            Do("put.file") >>),
      Operation("DB.readFile",
         << Guard("db.read", {"namespace"}, "File read denied: ") >>),
      Operation("DB.deleteFile",
         << Guard("db.delete", {"namespace"}, "File delete denied: "),
            Do("del.file") >>) }

\* Settings.init, Settings.get, Settings.set and Settings.delete
SettingsInitSteps == << Do("settings.init") >>

SettingsGetSteps ==
    SettingsInitSteps
    \o << GuardOrDefault("system.settings.read", {"scope"}) >>

SettingsSetSteps ==
    SettingsInitSteps
    \o << Guard("system.settings.write", {"scope", "value"},
                "Settings write denied: "),
          Do("put.setting") >>

SettingsOps ==
    { Operation("Settings.get", SettingsGetSteps),
      Operation("Settings.set", SettingsSetSteps),
      Operation("Settings.delete",
         SettingsInitSteps
         \o << Guard("system.settings.write", {"operation"},
                     "Settings delete denied: "),
               Do("del.setting") >>) }

\* the project taken from the cache of the workspace and, when it is not
\* there, from DB.getProject
FindProjectSteps(w) ==
    IF w.cached THEN << >> ELSE GetProjectSteps \o << Need("project") >>

WorkspaceOps(w) ==
    { Operation("Workspace.createProject",
         << Guard("project.create", {"options"},
                  "Project creation denied: ") >>
         \o SaveProjectSteps \o << Do("put.cache"), Do("load.rules") >>),
      Operation("Workspace.switchProject",
         << Guard("project.switch", {"currentProject"},
                  "Project switch denied: ") >>
         \o FindProjectSteps(w)
         \o << Do("put.cache"), Do("set.active"), Do("load.rules") >>
         \o SettingsSetSteps),
      Operation("Workspace.saveProject",
         << Need("active"),
            Guard("project.save", {"project"}, "Project save denied: ") >>
         \o SaveProjectSteps),
      Operation("Workspace.deleteProject",
         << Guard("project.delete", {}, "Project delete denied: "),
            Need("no active") >>
         \o DeleteProjectSteps \o << Do("del.cache") >>
         \o SettingsGetSteps \o SettingsSetSteps),
      Operation("Workspace.cloneProject",
         << Guard("project.clone", {"options"}, "Project clone denied: "),
            Need("cached") >>
         \o SaveProjectSteps) }

WidgetsOps ==
    { Operation("Widgets.open",
         << Guard("widget.open", {"options"}, "Widget open denied: "),
            Do("add.instance") >>),
      Operation("Widgets.close",
         << NeedOrFalse("instance"),
            Guard("widget.close", {"instanceId"}, "Widget close denied: "),
            Do("del.instance") >>),
      Operation("Widgets.execute",
         << Need("instance"),
            Guard("widget.execute", {"instanceId", "action", "data"},
                  "Widget execute denied: ") >>),
      Operation("Widgets.request",
         << GuardOrUnavailable("ui.notify", {}, "Action denied: ") >>),
      Operation("Widgets.install",
         << Guard("widget.install", {"projectId"},
                  "Widget install denied: ") >>
         \o GetProjectSteps \o << Need("project") >> \o SaveProjectSteps),
      Operation("Widgets.uninstall",
         << Guard("widget.uninstall", {"projectId"},
                  "Widget uninstall denied: ") >>
         \o GetProjectSteps \o << Need("project") >> \o SaveProjectSteps) }

ExportOps(w) ==
    { Operation("Export.exportProject",
         << Guard("project.export", {"options"}, "Export denied: ") >>
         \o FindProjectSteps(w) \o SaveProjectSteps) }

\* the test of a need in the state w of the collaborators
Has(w, what) ==
    IF what = "project" THEN "project" \in w.stored
    ELSE IF what = "active" THEN w.active
    ELSE IF what = "no active" THEN ~w.active
    ELSE IF what = "instance" THEN w.instances > 0
    ELSE IF what = "cached" THEN w.cached
    ELSE FALSE

\* the write or the change of state of a do in the state w
Change(w, what) ==
    IF what = "settings.init"
    THEN IF w.settings THEN w
         ELSE [w EXCEPT !.settings = TRUE, !.stored = @ \cup {"defaults"}]
    ELSE IF what = "put.app" THEN [w EXCEPT !.stored = @ \cup {"app"}]
    ELSE IF what = "del.app" THEN [w EXCEPT !.stored = @ \ {"app"}]
    ELSE IF what = "put.project"
    THEN [w EXCEPT !.stored = @ \cup {"project"}]
    ELSE IF what = "del.project" THEN [w EXCEPT !.stored = @ \ {"project"}]
    ELSE IF what = "put.file" THEN [w EXCEPT !.stored = @ \cup {"file"}]
    ELSE IF what = "del.file" THEN [w EXCEPT !.stored = @ \ {"file"}]
    ELSE IF what = "put.setting"
    THEN [w EXCEPT !.stored = @ \cup {"setting"}]
    ELSE IF what = "del.setting" THEN [w EXCEPT !.stored = @ \ {"setting"}]
    ELSE IF what = "set.active" THEN [w EXCEPT !.active = TRUE]
    ELSE IF what = "put.cache" THEN [w EXCEPT !.cached = TRUE]
    ELSE IF what = "del.cache" THEN [w EXCEPT !.cached = FALSE]
    ELSE IF what = "add.instance" THEN [w EXCEPT !.instances = @ + 1]
    ELSE IF what = "del.instance" THEN [w EXCEPT !.instances = @ - 1]
    ELSE w

\* the request of a guard
GuardRequest(step) ==
    Request(step.action, T_p1, ContextOf({ <<key, "v">> : key \in step.keys }))

Returned == [kind |-> "return", message |-> << >>]

RECURSIVE Run(_, _)
\* the steps run one after the other from c, which holds the state of the
\* collaborators, the rule list of the initialized engine, the requests
\* evaluated so far and the way the operation ends
Run(steps, c) ==
    IF steps = << >> THEN c
    ELSE LET step == Head(steps)
         IN  IF step.k = "guard" /\ ~c.world.engine
             THEN IF step.absent = "throw"
                  THEN [c EXCEPT !.outcome =
                          [kind |-> "throw",
                           message |-> <<"Rules engine not available">>]]
                  ELSE Run(Tail(steps), c)
             ELSE IF step.k = "guard"
             THEN LET request == GuardRequest(step)
                      result == Evaluate(c.store, request)
                      d == [c EXCEPT !.requests = Append(@, request)]
                  IN  IF result.kind = "throw"
                      THEN [d EXCEPT !.outcome = [kind |-> "throw",
                                                  message |-> result.reason]]
                      ELSE IF result.allowed THEN Run(Tail(steps), d)
                      ELSE IF step.deny = "throw"
                      THEN [d EXCEPT !.outcome =
                              [kind |-> "throw",
                               message |-> <<step.prefix>> \o result.reason]]
                      ELSE [d EXCEPT !.outcome =
                              [kind |-> "return",
                               message |-> <<"defaultValue">>]]
             ELSE IF step.k = "need"
             THEN IF Has(c.world, step.what) THEN Run(Tail(steps), c)
                  ELSE IF step.deny = "throw"
                  THEN [c EXCEPT !.outcome = [kind |-> "throw",
                                              message |-> <<"not found">>]]
                  ELSE [c EXCEPT !.outcome = [kind |-> "return",
                                              message |-> <<"false">>]]
             ELSE Run(Tail(steps),
                      [c EXCEPT !.world = Change(@, step.what),
                                !.store = IF /\ step.what = "load.rules"
                                             /\ c.world.engine
                                          THEN SelectSeq(@, NotProject)
                                          ELSE @])

\* a call of the operation: the first evaluate initializes the engine;
\* last.arg is the first request the operation evaluated
GuardedCall(operation) ==
    \E loaded \in IF initialized THEN {rules} ELSE LoadSystemRules :
      \E c \in { Run(operation.steps,
                     [world |-> world, store |-> loaded, requests |-> << >>,
                      outcome |-> Returned]) } :
        LET evaluated == c.requests # << >>
            Kept(id) == id \in Ids(c.store)
        IN  /\ c.world.instances <= MaxInstances
            /\ world' = c.world
            /\ rules' = IF evaluated THEN c.store ELSE rules
            /\ initialized' = (initialized \/ evaluated)
            /\ order' = IF ~evaluated THEN order
                        ELSE SelectSeq(IF initialized THEN order
                                       ELSE IdSeq(loaded), Kept)
            /\ prev' = rules
            /\ last' = [op |-> operation.name,
                        arg |-> IF evaluated THEN c.requests[1]
                                ELSE NoRequest,
                        ret |-> c.outcome,
                        threw |-> c.outcome.kind = "throw",
                        events |-> << >>]
            /\ UNCHANGED sink

DBCall == \E operation \in DBOps : GuardedCall(operation)

WorkspaceCall ==
    \E operation \in WorkspaceOps(world) : GuardedCall(operation)

WidgetsCall == \E operation \in WidgetsOps : GuardedCall(operation)

SettingsCall == \E operation \in SettingsOps : GuardedCall(operation)

ExportCall == \E operation \in ExportOps(world) : GuardedCall(operation)

\* rules that allow every action, deny every action, deny project.save
GuardCandidates ==
    { ARule,
      Rule("r2", "rule", 600, "project", CatchAll(ALWAYS),
           Effect("deny", "by rule"), TRUE),
      Rule("r2", "rule", 600, "widget",
           Condition("project.save", STAR, ALWAYS, {}),
           Effect("deny", "no saving"), TRUE) }

NextGuarded ==
    \/ \E rule \in GuardCandidates : RegisterCall(rule)
    \/ \E ruleId \in {"r1", "r2"} : UnregisterCall(ruleId)
    \/ DBCall
    \/ WorkspaceCall
    \/ WidgetsCall
    \/ SettingsCall
    \/ ExportCall

SpecGuarded == Init /\ [][NextGuarded]_vars

-----------------------------------------------------------------------------
(* loadProjectRules on rule lists that hold valid project-level entries,   *)
(* entries of another level, entries the validator refuses and null.       *)

\* longest rule list of a project in this specification
MaxEntries == 3

NullEntry == [ARule EXCEPT !.types.self = "null", !.id = NoStr]

LoadEntries ==
    { Rule("r2", "rule", 500, "project", CatchAll(ALWAYS),
           Effect("allow", "by rule"), TRUE),
      Rule("r3", "rule", 600, "project", CatchAll(ALWAYS),
           Effect("deny", "by rule"), TRUE),
      ARule,
      Rule("r4", "rule", 1001, "project", CatchAll(ALWAYS),
           Effect("allow", "by rule"), TRUE),
      NullEntry }

\* no argument, a project with no rules property, projects with a rule list
LoadProjects ==
    { [present |-> FALSE, hasRules |-> FALSE, rules |-> << >>],
      [present |-> TRUE, hasRules |-> FALSE, rules |-> << >>] }
    \cup { [present |-> TRUE, hasRules |-> TRUE, rules |-> l] :
             l \in SeqsUpTo(LoadEntries, MaxEntries) }

NextLoad ==
    \/ InitCall
    \/ \E project \in LoadProjects : LoadProjectRulesCall(project)

SpecLoad == Init /\ [][NextLoad]_vars

-----------------------------------------------------------------------------
(* The engine and its collaborators with no call of Rules.register and no  *)
(* call of Rules.loadProjectRules other than the two of Workspace.         *)

\* the project.* names of Rules.ACTIONS
ProjectActions ==
    { "project.create", "project.open", "project.save", "project.export",
      "project.delete", "project.switch", "project.clone" }

BuiltInRequests ==
    { Request(action, target, context) :
        action \in ProjectActions \cup {"system.boot"},
        target \in {UNDEF, T_p1},
        context \in {NoContext, ContextOf({<<"mode", "edit">>})} }

NextBuiltIn ==
    \/ InitCall
    \/ \E ruleId \in {"system-boot-allow", "r1"} : UnregisterCall(ruleId)
    \/ ClearCall
    \/ \E request \in BuiltInRequests : EvaluateCall(request)
    \/ DBCall
    \/ WorkspaceCall
    \/ WidgetsCall
    \/ SettingsCall
    \/ ExportCall

SpecBuiltIn == Init /\ [][NextBuiltIn]_vars

-----------------------------------------------------------------------------
(* The collaborators on a page where window.Rules is not defined.          *)

InitNoEngine ==
    /\ rules = << >>
    /\ initialized = FALSE
    /\ order = << >>
    /\ prev = << >>
    /\ last = [op |-> "none", arg |-> NoRequest, ret |-> Returned,
               threw |-> FALSE, events |-> << >>]
    /\ sink = "absent"
    /\ world = [NoWorld EXCEPT !.engine = FALSE]

NextNoEngine ==
    \/ DBCall
    \/ WorkspaceCall
    \/ WidgetsCall
    \/ SettingsCall
    \/ ExportCall

SpecNoEngine == InitNoEngine /\ [][NextNoEngine]_vars

-----------------------------------------------------------------------------
(* The validator on its own.  A candidate is drawn at the start and handed *)
(* to Rules._validateRule.  Each property of a candidate comes as a value  *)
(* with the typeof of that value.                                          *)

IdInputs ==
    { <<"r1", "string">>, <<"", "string">>, <<NoStr, "undefined">>,
      <<"7", "number">> }

NameInputs ==
    { <<"rule", "string">>, <<"", "string">>, <<NoStr, "undefined">> }

PriorityInputs ==
    { <<0, "number">>, <<1, "number">>, <<1000, "number">>,
      <<1001, "number">>, <<NaN, "number">>, <<500, "string">> }

LevelInputs == SeqToSet(HIERARCHY) \cup {"root", NoStr}

\* condition: an object with an action, or missing
ConditionInputs ==
    { <<"object", "*", "string">>, <<"object", "", "string">>,
      <<"object", NoStr, "undefined">>, <<"undefined", NoStr, "undefined">> }

\* effect: an object with a type, or missing
EffectInputs ==
    { <<"object", t>> : t \in {"allow", "deny", "modify", "block"} }
    \cup { <<"undefined", NoStr>> }

EnabledInputs == {"boolean", "string"}

ValidatorInputs ==
    { [ Rule(i[1], n[1], p[1], l, Condition(c[2], STAR, ALWAYS, {}),
             Effect(e[2], "by rule"), TRUE)
        EXCEPT !.types = [self |-> "object", id |-> i[2], name |-> n[2],
                          priority |-> p[2], condition |-> c[1],
                          action |-> c[3], effect |-> e[1], enabled |-> b] ] :
        i \in IdInputs, n \in NameInputs, p \in PriorityInputs,
        l \in LevelInputs, c \in ConditionInputs, e \in EffectInputs,
        b \in EnabledInputs }

InitValidate ==
    /\ rules = << >>
    /\ initialized = FALSE
    /\ order = << >>
    /\ prev = << >>
    /\ last \in { Call("none", rule, FALSE) : rule \in ValidatorInputs }
    /\ sink = "absent"
    /\ world = NoWorld

\* Rules._validateRule(rule) on the candidate drawn
ValidateRuleCall ==
    /\ last.op = "none"
    /\ last' = Call("validateRule", last.arg, ValidateRule(last.arg))
    /\ UNCHANGED <<rules, initialized, order, prev, sink, world>>

NextValidate == ValidateRuleCall

SpecValidate == InitValidate /\ [][NextValidate]_vars

-----------------------------------------------------------------------------
(* The target matcher on its own.  A pattern and a target are drawn at the *)
(* start and handed to Rules._matchesTarget.                               *)

\* longest pattern and longest target drawn from the alphabets
MaxPattern == 3

MaxTarget == 3

PatternChars == {"a", ".", "*", "+"}

TargetChars == {"a", ".", "+"}

WidgetStar == <<"w", "i", "d", "g", "e", "t", ".", "*">>

WidgetClock == <<"w", "i", "d", "g", "e", "t", ".", "c", "l", "o", "c", "k">>

WidgetXClock == <<"w", "i", "d", "g", "e", "t", "X", "c", "l", "o", "c", "k">>

AppClock == <<"a", "p", "p", ".", "c", "l", "o", "c", "k">>

\* patterns that start or end with '/'
SlashPatterns ==
    { <<"/">>, <<"/", "/">>, <<"/", "a", "/">>, <<"/", "*", "/">>,
      <<"/", "+", "/">>, <<"/", "a", "*", "/">>, <<"/", ".", "*", "/">>,
      <<"/", "^", "a", "/">>, <<"/", "a">>, <<"a", "/">>, <<"/", "*">>,
      <<"*", "/">>, <<"/", "a", "*">> }

SlashTargets ==
    { << >>, <<"a">>, <<"b">>, <<"b", "a">>, <<"/">>, <<"/", "a">>,
      <<"/", "a", "/">>, <<"/", "b", "/">>, <<"/", "+", "/">>,
      <<"/", "^", "a", "/">> }

MatcherInputs ==
    { <<pattern, target>> :
         pattern \in SeqsUpTo(PatternChars, MaxPattern) \ { << >> },
         target \in SeqsUpTo(TargetChars, MaxTarget) }
    \cup { <<WidgetStar, target>> :
              target \in {WidgetClock, WidgetXClock, AppClock} }
    \cup (SlashPatterns \X SlashTargets)

InitMatch ==
    /\ rules = << >>
    /\ initialized = FALSE
    /\ order = << >>
    /\ prev = << >>
    /\ last \in { Call("none", input, FALSE) : input \in MatcherInputs }
    /\ sink = "absent"
    /\ world = NoWorld

\* Rules._matchesTarget(pattern, target) on the pair drawn
MatchesTargetCall ==
    /\ last.op = "none"
    /\ last' = Call("matchesTarget", last.arg,
                    MatchesTarget(last.arg[1], last.arg[2]))
    /\ UNCHANGED <<rules, initialized, order, prev, sink, world>>

NextMatch == MatchesTargetCall

SpecMatch == InitMatch /\ [][NextMatch]_vars

-----------------------------------------------------------------------------
(* Properties *)

\* position of id in the sequence of ids ord
Pos(ord, id) == CHOOSE i \in 1..Len(ord) : ord[i] = id

\* a >= b on numbers: false when one of them is NaN
Geq(a, b) == ~IsNaN(a) /\ ~IsNaN(b) /\ a >= b

\* the rule is enabled and its whole condition matches the request
FullyMatches(rule, request) ==
    /\ rule.enabled
    /\ MatchesCondition(rule.condition, request.action,
                        RequestTarget(request), RequestContext(request))
         = "true"

\* the request names an action of the taxonomy
TaxonomyRequest(request) ==
    request.present /\ request.action \in Actions

\* C1: the store never holds two rules with the same id, and register of a
\* valid rule whose id is in the store returns true, puts the rule in the
\* place of the old one and leaves the size of the store unchanged
C1_UniqueIds ==
    /\ \A i, j \in 1..Len(rules) : rules[i].id = rules[j].id => i = j
    /\ ( /\ last.op = "register"
         /\ last.arg.types.self = "object"
         /\ ValidateRule(last.arg)
         /\ last.arg.id \in Ids(prev) )
       => /\ last.ret = TRUE
          /\ Len(rules) = Len(prev)
          /\ \E i \in 1..Len(rules) : rules[i] = last.arg

C1_Witness ==
    /\ last.op = "register"
    /\ last.ret = TRUE
    /\ last.arg.id \in Ids(prev)
    /\ Len(prev) >= 5
    /\ last.arg \notin SeqToSet(prev)

\* C2: the rule list is sorted by priority descending: of two adjacent
\* rules the earlier has a priority greater than or equal to the later
C2_SortedByPriority ==
    \A i \in 1..(Len(rules) - 1) :
        Geq(rules[i].priority, rules[i + 1].priority)

\* C3: of two enabled rules of equal priority with opposite effects that
\* both match a request, every other matching rule being of lower priority,
\* the one whose id entered the store first decides the result that
\* evaluate returns
C3_FirstRegisteredWins ==
    initialized =>
      \A request \in Requests : \A i, j \in 1..Len(rules) :
        ( /\ TaxonomyRequest(request)
          /\ Evaluate(rules, request).kind = "return"
          /\ FullyMatches(rules[i], request)
          /\ FullyMatches(rules[j], request)
          /\ rules[i].priority = rules[j].priority
          /\ {rules[i].effect.type, rules[j].effect.type} = {"allow", "deny"}
          /\ Pos(order, rules[i].id) < Pos(order, rules[j].id)
          /\ \A k \in 1..Len(rules) :
                FullyMatches(rules[k], request)
                   => k \in {i, j} \/ rules[k].priority < rules[i].priority )
        => Evaluate(rules, request) = ApplyEffect(rules[i].effect)

\* C4: a system-level rule that is in the store is still in the store, as
\* a system-level rule with the same id, after a call of register,
\* unregister, clear or loadProjectRules
C4_SystemRulesStay ==
    last.op \in {"register", "unregister", "clear", "loadProjectRules"}
       => \A i \in 1..Len(prev) :
             prev[i].level = "system"
                => \E j \in 1..Len(rules) :
                      /\ rules[j].id = prev[i].id
                      /\ rules[j].level = "system"

\* C5: register of a rule whose id is the id of a system-level rule of the
\* store returns false and leaves the store unchanged
C5_OverwriteRefused ==
    ( /\ last.op = "register"
      /\ \E i \in 1..Len(prev) :
            prev[i].id = last.arg.id /\ prev[i].level = "system" )
       => last.ret = FALSE /\ rules = prev

BootRequest == Request("system.boot", UNDEF, NoContext)

SaveRequest == Request("project.save", T_p1, NoContext)

UnknownAction(request) ==
    /\ request.present
    /\ request.action \notin Actions \cup {"*", "", NoStr}

\* C8: evaluate of an action that is not in the taxonomy and is not '*'
\* returns allowed: false with a reason that names the action, whatever
\* rules are registered
C8_UnknownActionRejected ==
    (last.op = "evaluate" /\ UnknownAction(last.arg))
       => last.ret
             = Result(FALSE, <<"Unknown action: ", last.arg.action>>, NoStr)

\* C9: evaluate with no request or with a request that has no action returns
\* allowed: false with a reason and does not throw
C9_MissingActionDenied ==
    ( /\ last.op = "evaluate"
      /\ ~last.arg.present \/ last.arg.action \in {"", NoStr} )
       => /\ last.ret.kind = "return"
          /\ last.ret.allowed = FALSE
          /\ last.ret.reason # << >>

C9_Witness ==
    /\ last.op = "evaluate"
    /\ ~last.arg.present
    /\ Len(rules) >= 5
    /\ \E i \in 1..Len(rules) : rules[i].condition.target = UNDEF

\* C10: evaluate never throws
C10_NeverThrows ==
    last.op = "evaluate" => last.ret.kind = "return"

\* C11: register of a candidate that is null, has no id or fails the
\* validator returns false and leaves the store as it was, also when the id
\* of the candidate is the id of a rule of the store
C11_RejectedLeavesStore ==
    ( /\ last.op = "register"
      /\ \/ last.arg.types.self # "object"
         \/ last.arg.id \in {"", NoStr}
         \/ ~ValidateRule(last.arg) )
       => /\ last.ret = FALSE
          /\ rules = prev

C11_Witness ==
    /\ last.op = "register"
    /\ last.arg.types.self = "object"
    /\ ~ValidateRule(last.arg)
    /\ last.ret = FALSE
    /\ \E i \in 1..Len(prev) :
          prev[i].id = last.arg.id /\ prev[i] # last.arg /\ rules[i] = prev[i]

\* the candidate has a non-empty string id and name, an integer priority in
\* 1..1000, a level of the hierarchy, a condition with a non-empty action
\* pattern, an effect of type allow, deny or modify and a boolean enabled
WellFormed(rule) ==
    /\ rule.types.id = "string" /\ rule.id \notin {"", NoStr}
    /\ rule.types.name = "string" /\ rule.name \notin {"", NoStr}
    /\ rule.types.priority = "number"
    /\ ~IsNaN(rule.priority)
    /\ rule.priority \in 1..1000
    /\ rule.level \in {"system", "environment", "project", "mode", "widget"}
    /\ rule.types.condition = "object"
    /\ rule.types.action = "string" /\ rule.condition.action \notin {"", NoStr}
    /\ rule.types.effect = "object"
    /\ rule.effect.type \in {"allow", "deny", "modify"}
    /\ rule.types.enabled = "boolean"

\* C12: the validator accepts a candidate exactly when the candidate is
\* well formed, its priority being an integer between 1 and 1000
C12_ValidatorAccepts ==
    last.op = "validateRule" => (last.ret <=> WellFormed(last.arg))

\* the valid project-level entries of the rule list of a project
ValidProjectRules(project) ==
    { r \in SeqToSet(project.rules) :
         /\ r.level = "project"
         /\ r.types.self = "object"
         /\ ValidateRule(r) }

\* C13: after loadProjectRules(setB), whatever was loaded before it, the
\* project-level rules of the store are the valid project-level rules of
\* setB, and every rule of another level that was in the store is still
\* there unchanged, also when ids of setB are ids of rules of other levels.
\* (A rule of another level lost by one load is lost by the two loads of
\* the same set as well.)
C13_ProjectRulesReplaced ==
    ( /\ last.op = "loadProjectRules"
      /\ last.arg.present
      /\ last.arg.hasRules )
       => /\ { r \in SeqToSet(rules) : r.level = "project" }
                = ValidProjectRules(last.arg)
          /\ \A i \in 1..Len(prev) :
                prev[i].level # "project" => prev[i] \in SeqToSet(rules)

\* the index of the rule with this id in the store
IndexOf(store, id) == CHOOSE k \in 1..Len(store) : store[k].id = id

\* C14: after clear the store holds the system-level rules it held before,
\* in the same relative order, and nothing else
C14_ClearKeepsSystemRules ==
    last.op = "clear"
       => /\ \A i \in 1..Len(rules) :
                rules[i].level = "system" /\ rules[i] \in SeqToSet(prev)
          /\ \A i \in 1..Len(prev) :
                prev[i].level = "system" => prev[i] \in SeqToSet(rules)
          /\ \A i, j \in 1..Len(rules) :
                i < j => IndexOf(prev, rules[i].id) < IndexOf(prev, rules[j].id)

C14_Witness ==
    /\ last.op = "clear"
    /\ Len(prev) >= 6
    /\ Len(rules) = 4
    /\ \E i, j \in 1..Len(prev) :
          i < j /\ prev[i].level # "system" /\ prev[j].level = "system"

\* C15: unregister of the id of a non-system rule of the store returns true
\* and removes that rule alone, the others keeping their relative order;
\* unregister of an id that is not in the store returns false and leaves
\* the store as it was
C15_UnregisterRemovesOne ==
    last.op = "unregister"
       => /\ ( /\ last.arg \in Ids(prev)
               /\ prev[IndexOf(prev, last.arg)].level # "system" )
             => LET index == IndexOf(prev, last.arg)
                IN  /\ last.ret = TRUE
                    /\ Len(rules) = Len(prev) - 1
                    /\ \A i \in 1..Len(rules) :
                          rules[i] = IF i < index THEN prev[i] ELSE prev[i + 1]
          /\ last.arg \notin Ids(prev)
                => last.ret = FALSE /\ rules = prev

C15_Witness ==
    /\ last.op = "unregister"
    /\ last.ret = TRUE
    /\ Len(prev) >= 6
    /\ \E i \in 2..(Len(prev) - 2) : prev[i].id = last.arg

\* the request reaches the rules: it names an action that passes the
\* lookup in ACTIONS
ReachesRules(request) ==
    /\ request.present
    /\ request.action \notin {"", NoStr}
    /\ ActionsLookup(request.action) \/ request.action = "*"

\* rule i is the first rule of the store, in store order, that is enabled
\* and whose action, target, when and context map all match the request
FirstFullMatch(store, i, request) ==
    /\ FullyMatches(store[i], request)
    /\ \A j \in 1..(i - 1) : ~FullyMatches(store[j], request)

\* C16: evaluate returns the effect of the first rule in store order that
\* is enabled and matches the request in full; a disabled rule and a rule
\* that fails its context map are passed over
C16_FirstMatchDecides ==
    ( last.op = "evaluate" /\ ReachesRules(last.arg) )
       => \A i \in 1..Len(rules) :
             FirstFullMatch(rules, i, last.arg)
                => last.ret = ApplyEffect(rules[i].effect)

\* the store with the levels of rules i and j exchanged
SwapLevels(store, i, j) ==
    [store EXCEPT ![i].level = store[j].level, ![j].level = store[i].level]

Without(store, i) == SubSeq(store, 1, i - 1) \o SubSeq(store, i + 1, Len(store))

\* rule i is enabled, has a when string and no context map, and its action
\* and target patterns match the request: whether it matches is up to when
WhenDecides(store, i, request) ==
    /\ store[i].enabled
    /\ store[i].condition.when # UNDEF
    /\ store[i].condition.context = {}
    /\ MatchesBasic([store[i].condition EXCEPT !.when = ALWAYS],
                    request.action, RequestTarget(request),
                    RequestContext(request)) = "true"

IsModeWhen(when) == Len(when) = 2 /\ when[1] = "mode:"

\* the outcome of matching the condition of rule i against the request
ConditionOutcome(store, i, request) ==
    MatchesCondition(store[i].condition, request.action,
                     RequestTarget(request), RequestContext(request))

\* C20: a rule with when 'mode:<v>' matches exactly when context.mode or
\* context.activeMode is <v>; when it does not match, evaluate goes on as if
\* the rule were not in the store; a rule whose when string is neither
\* 'always' nor 'mode:<v>' does not match, without an exception
C20_WhenPredicate ==
    ( last.op = "evaluate" /\ ReachesRules(last.arg) )
       => \A i \in 1..Len(rules) :
             WhenDecides(rules, i, last.arg)
                => LET when == rules[i].condition.when
                       context == RequestContext(last.arg)
                       outcome == ConditionOutcome(rules, i, last.arg)
                   IN  /\ ( IsModeWhen(when) /\ context.kind = "object" )
                            => /\ outcome = "true"
                                    <=> \/ Lookup(context.map, "mode") = when[2]
                                        \/ Lookup(context.map, "activeMode")
                                              = when[2]
                               /\ outcome # "true"
                                    => last.ret
                                         = Evaluate(Without(rules, i), last.arg)
                       /\ ( ~IsModeWhen(when) /\ when # ALWAYS )
                            => outcome = "false"

\* C18: the target pattern 'widget.*' matches the target 'widget.clock' and
\* does not match the target 'app.clock'
C18_WidgetStar ==
    ( last.op = "matchesTarget" /\ last.arg[1] = WidgetStar )
       => /\ last.arg[2] = WidgetClock => last.ret = "true"
          /\ last.arg[2] = AppClock => last.ret = "false"

C18_Witness ==
    /\ last.op = "matchesTarget"
    /\ last.arg = <<WidgetStar, WidgetClock>>
    /\ last.ret = "true"

RECURSIVE LiteralGlob(_, _)
\* the target is the pattern with a sequence of characters in the place of
\* each '*' and every other character of the pattern as it stands
LiteralGlob(pattern, target) ==
    IF pattern = << >> THEN target = << >>
    ELSE IF Head(pattern) = "*"
         THEN \E k \in 0..Len(target) :
                 LiteralGlob(Tail(pattern), SubSeq(target, k + 1, Len(target)))
         ELSE /\ target # << >>
              /\ Head(target) = Head(pattern)
              /\ LiteralGlob(Tail(pattern), Tail(target))

\* C19: a wildcard pattern matches a target only if every character of the
\* pattern other than '*' stands in the target as it is, '*' standing for
\* any sequence of characters
C19_GlobMatchesLiterally ==
    ( /\ last.op = "matchesTarget"
      /\ "*" \in SeqToSet(last.arg[1])
      /\ last.ret = "true" )
       => LiteralGlob(last.arg[1], last.arg[2])

\* the context of the request has the key with this value
HasEntry(context, key, value) ==
    /\ context.kind = "object"
    /\ \E q \in context.map : q[1] = key /\ q[2] = value

\* C21: a rule with a context map applies to a request only if every key of
\* the map is in the context of the request with an equal value
C21_ContextMapRequired ==
    ( last.op = "evaluate" /\ ReachesRules(last.arg) )
       => \A i \in 1..Len(rules) :
             ( /\ rules[i].condition.context # {}
               /\ FullyMatches(rules[i], last.arg) )
                => \A p \in rules[i].condition.context :
                      HasEntry(RequestContext(last.arg), p[1], p[2])

\* rule i of the store is the rule that decides the call: the first rule
\* that matches in full, in a call that returned
Wins(store, i, request, ret) ==
    /\ ReachesRules(request)
    /\ FirstFullMatch(store, i, request)
    /\ ret.kind = "return"

ThrowingTransform(rule) ==
    rule.effect.type = "modify" /\ rule.effect.transform = "throws"

\* matching the enabled rules of the store against the request throws
\* nothing
MatchingReturns(store, request) ==
    \A j \in 1..Len(store) :
       store[j].enabled
          => MatchesCondition(store[j].condition, request.action,
                              RequestTarget(request), RequestContext(request))
               # "throw"

Restrict(store, kept) ==
    LET IsKept(r) == r \in SeqToSet(kept)
    IN  SelectSeq(store, IsKept)

\* C24: evaluate is a read of the rule list: the rules that were registered
\* before the call, also before the engine was initialized, are all in the
\* store after it, with the same content and in the same order
C24_EvaluateKeepsRules ==
    last.op = "evaluate" => Restrict(rules, prev) = prev

IsLogRule(e) == e.method = "logRule"

\* C25: a decision evaluate returns, by a matching rule or by default, is
\* handed to the attached sink by exactly one call of logRule, which
\* carries the action, the target, the context and the result, and the id
\* and the name of the deciding rule when there is one
C25_DecisionForwardedOnce ==
    ( /\ last.op = "evaluate"
      /\ sink # "absent"
      /\ ReachesRules(last.arg)
      /\ last.ret.kind = "return" )
       => LET forwarded == SelectSeq(last.events, IsLogRule)
          IN  /\ Len(forwarded) = 1
              /\ forwarded[1].action = last.arg.action
              /\ forwarded[1].target = RequestTarget(last.arg)
              /\ forwarded[1].result = last.ret
              /\ RequestContext(last.arg).map \subseteq forwarded[1].context
              /\ \A i \in 1..Len(rules) :
                    FirstFullMatch(rules, i, last.arg)
                       => /\ Lookup(forwarded[1].context, "ruleId")
                               = rules[i].id
                          /\ Lookup(forwarded[1].context, "ruleName")
                               = rules[i].name

\* C26: each call has, with a sink of any kind, the outcome it has from the
\* same store with no sink: the same value returned, the same store after
\* it, and no exception that the call without a sink does not throw
C26_SinkIndependent ==
    /\ last.op = "register"
          => /\ ~last.threw
             /\ [store |-> rules, ret |-> last.ret] \in Register(prev, last.arg)
    /\ last.op = "unregister"
          => /\ ~last.threw
             /\ [store |-> rules, ret |-> last.ret] = Unregister(prev, last.arg)
    /\ last.op = "clear" => rules = Clear(prev)
    /\ last.op = "loadProjectRules"
          => /\ ~last.threw
             /\ rules \in LoadProjectRules(prev, last.arg)
    /\ last.op = "evaluate"
          => /\ rules \in {prev} \cup LoadSystemRules
             /\ last.ret = Evaluate(rules, last.arg)

\* C30: while register, unregister, clear or loadProjectRules runs, a
\* listener of the sink that calls evaluate reads the rule list either as
\* it was before the call or as it is after the call
C30_MutationsAtomic ==
    last.op \in {"register", "unregister", "clear", "loadProjectRules"}
       => \A k \in 1..Len(last.events) :
             last.events[k].store \in {prev, rules}

\* an enabled allow rule of the system level for the action, on every target
\* and with no further condition
AllowsAlways(store, action) ==
    \E i \in 1..Len(store) :
       /\ store[i].level = "system"
       /\ store[i].enabled = TRUE
       /\ store[i].effect.type = "allow"
       /\ store[i].condition.action = action
       /\ store[i].condition.target = STAR
       /\ store[i].condition.when = ALWAYS
       /\ store[i].condition.context = {}

\* the deny rule on every action and every target, held but disabled
CatchAllDisabled(store) ==
    \E i \in 1..Len(store) :
       /\ store[i].level = "system"
       /\ store[i].enabled = FALSE
       /\ store[i].effect.type = "deny"
       /\ store[i].effect.reason = "Action not explicitly allowed"
       /\ store[i].condition.action = "*"
       /\ store[i].condition.target = STAR

BuiltIn(store) ==
    /\ Len(store) = 4
    /\ AllowsAlways(store, "system.boot")
    /\ AllowsAlways(store, "system.log")
    /\ AllowsAlways(store, "system.debug")
    /\ CatchAllDisabled(store)

C28_IsAllowedIsEvaluate ==
    [][ last'.op = "isAllowed"
          => \E o \in EvaluateSink(sink, initialized, rules, last'.arg) :
                /\ rules' = o.store
                /\ initialized' = o.initialized
                /\ last'.events = o.events
                /\ last'.threw = (o.ret.kind = "throw")
                /\ ~last'.threw => last'.ret = o.ret.allowed ]_vars

C28_Witness ==
    /\ last.op = "isAllowed"
    /\ last.arg.target = UNDEF
    /\ last.arg.context = NoContext
    /\ sink = "attached"
    /\ Len(rules) > 4
    /\ ~last.threw
    /\ last.ret = TRUE

GuardedOperations ==
    { operation.name :
        operation \in DBOps \cup WorkspaceOps(NoWorld) \cup WidgetsOps
                        \cup SettingsOps \cup ExportOps(NoWorld) }

\* the message ends with the reason
Surfaces(message, reason) ==
    /\ Len(message) >= Len(reason)
    /\ SubSeq(message, Len(message) - Len(reason) + 1, Len(message)) = reason

\* C29: when the evaluate call of a guarded operation of DB, Workspace,
\* Widgets, Settings or Export returns allowed false, the operation leaves
\* the database and the state of the collaborators as they were and ends
\* with an error whose message carries the reason of the decision
C29_DeniedHasNoEffect ==
    [][ ( /\ last'.op \in GuardedOperations
          /\ last'.arg.present
          /\ ~Evaluate(rules', last'.arg).allowed )
          => /\ world' = world
             /\ last'.threw
             /\ Surfaces(last'.ret.message,
                         Evaluate(rules', last'.arg).reason) ]_vars

\* the pattern starts with '/' and ends with '/'
SlashDelimited(pattern) ==
    /\ Len(pattern) >= 1
    /\ pattern[1] = "/"
    /\ pattern[Len(pattern)] = "/"

\* the text between the first and the last character
Inner(pattern) == [i \in 1..(Len(pattern) - 2) |-> pattern[i + 1]]

Truth(b) == IF b THEN "true" ELSE "false"

\* C31: '*' matches every target; otherwise a pattern equal to the target
\* matches; otherwise a pattern with '/' at both ends gives what its inner
\* text gives as a regular expression, also when it contains '*';
\* otherwise a pattern that contains '*' gives what it gives as a glob;
\* every other pattern does not match
C31_FormPrecedence ==
    last.op = "matchesTarget" =>
       LET pattern == last.arg[1]
           target == last.arg[2]
       IN  /\ pattern = STAR => last.ret = "true"
           /\ pattern = target => last.ret = "true"
           /\ ( /\ pattern # STAR
                /\ pattern # target
                /\ SlashDelimited(pattern)
                /\ RegExpCompiles(Inner(pattern)) )
                 => last.ret = Truth(RegExpTest(Inner(pattern), target))
           /\ ( /\ pattern # STAR
                /\ pattern # target
                /\ ~SlashDelimited(pattern)
                /\ \E i \in 1..Len(pattern) : pattern[i] = "*"
                /\ RegExpCompiles(GlobSource(pattern)) )
                 => last.ret = Truth(RegExpTest(GlobSource(pattern), target))
           /\ ( /\ pattern # STAR
                /\ pattern # target
                /\ ~SlashDelimited(pattern)
                /\ \A i \in 1..Len(pattern) : pattern[i] # "*" )
                 => last.ret = "false"

\* '/a*/' on the target 'b': the regular expression a* matches, the glob
\* ^/a.*/$ would not
C31_Witness ==
    /\ last.op = "matchesTarget"
    /\ last.arg = << <<"/", "a", "*", "/">>, <<"b">> >>
    /\ last.ret = "true"

\* C32: the step in which the engine becomes initialized, by init or by the
\* first evaluate, leaves exactly the four built-in rules in the store,
\* whatever register and loadProjectRules had put there before
C32_FirstInitDiscards ==
    [][ (~initialized /\ initialized')
          => /\ Len(rules') = Len(SystemRules)
             /\ SeqToSet(rules') = SeqToSet(SystemRules) ]_vars

\* a rule registered before the first init is gone after it
C32_Witness ==
    /\ last.op \in {"init", "evaluate"}
    /\ initialized
    /\ \E i \in 1..Len(prev) : prev[i].id = "r1"
    /\ \A i \in 1..Len(rules) : rules[i].id # "r1"
    /\ Len(rules) = 4

\* C33: a call of init on the initialized engine leaves the rule store as it
\* is, so the rules registered since the first init stay
C33_InitIdempotent ==
    [][ (initialized /\ last'.op = "init")
          => /\ rules' = rules
             /\ initialized' ]_vars

\* init returned on a store that holds more than the built-in rules
C33_Witness ==
    /\ last.op = "init"
    /\ initialized
    /\ rules = prev
    /\ \E i \in 1..Len(rules) : rules[i].id = "r2"
    /\ \E i \in 1..Len(rules) : rules[i].id = "system-dangerous-deny"

\* C34: a successful register of a rule whose id is in the store with the
\* same priority puts the rule in the place of the old one and moves no
\* rule: the ids stand in the order they stood in before
C34_ReplaceKeepsSlot ==
    [][ ( /\ last'.op = "register"
          /\ last'.ret = TRUE
          /\ \E i \in 1..Len(rules) :
                /\ rules[i].id = last'.arg.id
                /\ rules[i].priority = last'.arg.priority )
          => /\ IdSeq(rules') = IdSeq(rules)
             /\ \A i \in 1..Len(rules) :
                   rules'[i] = IF rules[i].id = last'.arg.id
                               THEN last'.arg ELSE rules[i] ]_vars

\* r1 replaced by a different rule of its priority, with r2 of that
\* priority behind it before and after
C34_Witness ==
    /\ last.op = "register"
    /\ last.ret = TRUE
    /\ last.arg.id = "r1"
    /\ \E i, j \in 1..Len(prev) :
          /\ i < j
          /\ prev[i].id = "r1"
          /\ prev[i] # last.arg
          /\ prev[j].id = "r2"
          /\ prev[i].priority = last.arg.priority
          /\ prev[j].priority = last.arg.priority
          /\ rules[i] = last.arg
          /\ rules[j] = prev[j]

\* C35: loadProjectRules with a rule list returns, and then the store holds
\* every entry of the list that is of level project and passes validation
\* (the last one of each id), holds no other rule of level project, and
\* holds no entry of another level that it did not hold before; an entry
\* that is refused keeps no later entry from being registered
C35_LoadSkipsInvalid ==
    ( /\ last.op = "loadProjectRules"
      /\ last.arg.present
      /\ last.arg.hasRules )
       => LET list == last.arg.rules
              Good(r) == /\ r.types.self = "object"
                         /\ r.level = "project"
                         /\ ValidateRule(r)
          IN  /\ ~last.threw
              /\ \A k \in 1..Len(list) :
                    Good(list[k]) => list[k].id \in Ids(rules)
              /\ \A i \in 1..Len(rules) :
                    rules[i].level = "project"
                       => \E k \in 1..Len(list) :
                             Good(list[k]) /\ list[k] = rules[i]
              /\ \A k \in 1..Len(list) :
                    (~Good(list[k]) /\ list[k] \in SeqToSet(rules))
                       => list[k] \in SeqToSet(prev)

\* C36: loadProjectRules called with no project, or with a project that has
\* no rules, changes nothing: the store keeps every rule, those of level
\* project included, the call returns and makes no call on the sink
C36_LoadWithoutRulesIsNoOp ==
    [][ ( /\ last'.op = "loadProjectRules"
          /\ (~last'.arg.present \/ ~last'.arg.hasRules) )
          => /\ rules' = rules
             /\ initialized' = initialized
             /\ order' = order
             /\ ~last'.threw
             /\ last'.events = << >> ]_vars

\* the project-level rule of an earlier load is still in the store
C36_Witness ==
    /\ last.op = "loadProjectRules"
    /\ last.arg.present
    /\ ~last.arg.hasRules
    /\ sink = "attached"
    /\ rules = prev
    /\ \E i \in 1..Len(rules) : rules[i].level = "project"

\* C37: from the built-in rules, with no call of register and no direct call
\* of loadProjectRules, the store of the initialized engine is the built-in
\* rule set, no project.* request is allowed, and every Workspace.createProject
\* and Workspace.switchProject throws the denial of its guard, so that no
\* project is cached or made active and loadProjectRules is not reached
C37_BuiltInStaysClosed ==
    /\ initialized => rules \in LoadSystemRules
    /\ \A store \in IF initialized THEN {rules} ELSE LoadSystemRules :
          \A request \in BuiltInRequests :
             request.action \in ProjectActions
                => ~Evaluate(store, request).allowed
    /\ last.op = "Workspace.createProject"
          => /\ last.threw
             /\ last.ret.message = <<"Project creation denied: ",
                                     "No matching rule found">>
    /\ last.op = "Workspace.switchProject"
          => /\ last.threw
             /\ last.ret.message = <<"Project switch denied: ",
                                     "No matching rule found">>
    /\ ~world.cached
    /\ ~world.active

\* switchProject denied on an engine that init had already loaded
C37_Witness ==
    /\ last.op = "Workspace.switchProject"
    /\ last.threw
    /\ last.arg.action = "project.switch"
    /\ initialized
    /\ rules = prev
    /\ rules \in LoadSystemRules

\* C38: DB.op(op, val) evaluates the action 'db.' + op; db.put and db.get
\* are not in ACTIONS, so under every rule list, the one holding a rule that
\* allows every action included, DB.op('put') and DB.op('get') throw
\* 'DB operation denied: Unknown action: db.put' (db.get), write nothing and
\* leave the rule list as it is
C38_LegacyPutGetUnknown ==
    [][ \A op \in {"put", "get"} :
          last'.op = "DB.op." \o op
            => /\ last'.arg.action = "db." \o op
               /\ last'.threw
               /\ last'.ret.message = <<"DB operation denied: ",
                                        "Unknown action: ", "db." \o op>>
               /\ world' = world
               /\ IF initialized THEN rules' = rules
                  ELSE rules' \in LoadSystemRules ]_vars

\* DB.op('put') refused while the rule that allows every action is enabled
C38_Witness ==
    /\ last.op = "DB.op.put"
    /\ last.threw
    /\ \E i \in 1..Len(rules) :
          /\ rules[i].effect.type = "allow"
          /\ rules[i].condition.action = "*"
          /\ rules[i].condition.target = STAR
          /\ rules[i].enabled

====
